---- MODULE Spec2Model ----
(***************************************************************************)
(* The PolicyClaim ledger (contract PolicyClaim, src/unnamed/part_007) as  *)
(* a state machine.  Every external function is one atomic action: a       *)
(* transaction either runs to its end or reverts and leaves the storage    *)
(* and the event log as they were.  Each function is written as an         *)
(* operator from the current storage and the call's arguments to an        *)
(* outcome [err, ret, st]: the revert message (or NoError), the returned   *)
(* value and the storage left behind; the action commits the outcome, so   *)
(* that a reverted call is a step that changes nothing.                    *)
(*                                                                         *)
(* keccak256(abi.encodePacked(...)) is modelled as the tuple of the packed *)
(* fields (a collision-free digest): both preimages hold at most one       *)
(* dynamic field, so the packed encoding is itself injective.              *)
(*                                                                         *)
(* Beside it, the Fabric simulator (src/fabric-simulator/                  *)
(* fabric-simulator.js), an in-memory Map behind an HTTP endpoint, and the *)
(* EthereumFabricBridge (src/fabric-simulator/test-fabric.js, 112-312)     *)
(* that posts to it.  Last, the earlier deployment (part_002): PolicyStorage *)
(* (part_008), HealthToken (part_006) and HealthInsurance (part_005).       *)
(* A request is handled to its end before the next one  *)
(* (one Node.js event loop), so each request is one atomic action; its     *)
(* functions are operators from the Map and the time of the call to an     *)
(* outcome [err, ret, st], err being the message of the Error thrown.      *)
(***************************************************************************)
EXTENDS Integers, Sequences, FiniteSets, TLC

VARIABLES
    policies,       \* mapping(bytes32 => Policy): the stored records by id
    claims,         \* mapping(bytes32 => Claim)
    userPolicies,   \* mapping(address => bytes32[])
    userClaims,     \* mapping(address => bytes32[])
    totalPolicies,  \* uint256
    totalClaims,    \* uint256
    events,         \* the event log, in emission order
    now,            \* block.timestamp of the block being executed
    ledger,         \* FabricSimulator.ledger: the entries of the Map, in its order
    clock,          \* Date.now() on the simulator's and the bridge's host
    demo,           \* the integration demo: its position and its claimRequest
    legacy          \* PolicyStorage, HealthToken and HealthInsurance as deployed

\* The storage of the contracts on the chain and the block timestamp.
chainVars == <<policies, claims, userPolicies, userClaims, totalPolicies,
               totalClaims, events, now, legacy>>
\* The simulator's Map, the wall clock and the demo script.
fabricVars == <<ledger, clock, demo>>

vars == <<policies, claims, userPolicies, userClaims, totalPolicies,
          totalClaims, events, now, ledger, clock, demo, legacy>>

----------------------------------------------------------------------------
(* Bounds of the model *)

\* Width of the machine word standing for uint256.
UintWidth == 20
\* The last block timestamp the model reaches.
MaxTime == 3
\* Most transactions that succeed (each emits one event) in one behaviour.
MaxEvents == 4
\* The last reading of the wall clock the model reaches.
MaxClock == 1
\* Most records the simulator's Map holds under SpecMirror, the sample record
\* of the constructor among them.
MaxRecords == 3
\* Most reward payouts HealthInsurance is funded for at one time.
MaxRewards == 1

UintMax == 2^UintWidth - 1

----------------------------------------------------------------------------
(* Program constants *)

\* 0.01 ether, counted in finney (10^15 wei); premiums are given in finney.
MINIMUM_PREMIUM == 10
MAXIMUM_CLAIM_RATIO == 80
\* 1 ether, in finney.
ether == 100 * MINIMUM_PREMIUM
\* HealthToken's initial supply and the payout of an approved claim (1e18).
InitialSupply == 1000 * ether
RewardAmount == ether
\* 365 days and 180 days; the workflow's block timestamps count in days.
days365 == 365
days180 == 180

ZeroAddress == "0x0"
ZeroBytes32 == << >>
\* constructor: insurer = msg.sender
insurer == "deployer"

NoError == "ok"
NoReturn == "none"
Panic_Overflow == "Panic(0x11)"
Panic_DivByZero == "Panic(0x12)"

ClaimStatus == {"Pending", "Approved", "Rejected"}

----------------------------------------------------------------------------
(* Inputs the transactions are called with *)

Senders == {insurer, "alice", "bob"}
Addresses == Senders \cup {ZeroAddress}
Holders == {ZeroAddress, "alice", "bob"}
InsuredAmounts == {0, 105}
Premiums == {MINIMUM_PREMIUM - 1, MINIMUM_PREMIUM}
StartDates == {1}
EndDates == {1, 2}
PolicyHashes == {"0xabc123"}
ClaimAmounts == {0, 85}
Descriptions == {"surgery"}
\* The amounts the decision rule of processClaim is probed with: small ones,
\* the 80% boundary of 100 and of 105, and the edges of the word.
DecisionInsured == (1 .. 12) \cup {100, 105, UintMax}
DecisionAmounts ==
    (1 .. 13) \cup {80, 81, 84, 85, 86, 100, 101, 105, 106}
              \cup {UintMax \div 100, UintMax \div 100 + 1, UintMax}
UnknownId == <<"unknown">>
\* The two policies of the workflow script and the claim made on each.
WorkflowPolicies ==
    {[holder |-> "alice", insuredAmount |-> 10 * ether, premium |-> 1 * ether,
      term |-> days365],
     [holder |-> "bob", insuredAmount |-> 5 * ether, premium |-> ether \div 2,
      term |-> days180]}
WorkflowClaims ==
    {[claimant |-> "alice", claimAmount |-> 3 * ether],
     [claimant |-> "bob", claimAmount |-> 6 * ether]}

\* The earlier deployment: who holds HealthToken, who claims, the policy ids
\* (keccak256 of "POLICY-001" and of one more), the texts stored and the
\* amount claimed.
HealthInsuranceAddress == "HealthInsurance"
TokenHolders == Senders \cup {HealthInsuranceAddress}
Claimants == {"alice", "bob"}
StoredPolicyIds == {<<"POLICY-001">>, <<"POLICY-002">>}
\* The id the StorePolicy script stores its policy under.
ScriptPolicyIds == {<<"POLICY-001">>}
StoredPolicyHashes == {"0xabc123hash"}
StoredPolicyData == {"policy data"}
RewardClaimAmounts == {85}
\* The amounts of HealthToken sent and allowed, who allows and who spends.
TokenAmounts == {RewardAmount}
TokenOwners == {insurer, "alice"}
TokenSpenders == {"bob"}

\* What the bridge and the test client send to the simulator.
PatientIds == {"PAT001", "PAT_DEMO_001"}
SyncPolicyIds == {"POLICY_DEMO_001"}
\* Texts Math.random().toString(36).substr(2, 9) can give, a fresh one at each
\* call: nine characters as a rule, fewer when the fraction in base 36 is short
\* ("i" for 0.5).
RandomSuffixes == {"k3x9q2m1a", "z8c4v7b5n", "i"}
MirrorStatuses == {"approved", "rejected"}
\* The hashes updateClaimStatus is sent: that of the demo and that of the test
\* client.
TxHashes == {"ETH_TX_APPROVED_12345", "ETH_TX_TEST_123"}
\* Ids the test client creates claim requests under: its own, and the id of the
\* sample patient record.
TestClaimIds == {"TEST_CLAIM_001", "PAT001"}
\* The id it creates its patient record under.
TestPatientIds == {"TEST_PATIENT_001"}
\* The args of the test client's CreatePatientRecord and CreateClaimRequest.
TestPatientArgs(id) ==
    <<id, "TEST_HOSPITAL_001", "TEST_INSURANCE_001", "TEST_HASH_001",
      "Test Diagnosis", "Test Treatment", "250.00">>
TestClaimArgs(id) ==
    <<id, "TEST_PATIENT_001", "TEST_HOSPITAL_001", "TEST_INSURANCE_001",
      "Test claim description", "TEST_POLICY_001", "200.00">>
UnknownClaimId == "CLAIM_UNKNOWN"
UnknownFunctions == {"DeleteClaimRequest"}
\* The patient record and the claim of the demo.
DemoPatient ==
    [patientId |-> "PAT_DEMO_001", hospitalId |-> "HOSP_DEMO_001",
     insuranceId |-> "INS_DEMO_001", diagnosis |-> "Emergency Treatment",
     treatment |-> "Surgery and Recovery", cost |-> 5000]
DemoClaim ==
    [patientId |-> "PAT_DEMO_001", hospitalId |-> "HOSP_DEMO_001",
     insuranceId |-> "INS_DEMO_001", policyId |-> "POLICY_DEMO_001",
     description |-> "Emergency surgery claim for patient PAT_DEMO_001",
     amount |-> 4500]

----------------------------------------------------------------------------
(* Storage *)

ZeroPolicy ==
    [policyId |-> ZeroBytes32, policyHolder |-> ZeroAddress, insuredAmount |-> 0,
     premium |-> 0, startDate |-> 0, endDate |-> 0, isActive |-> FALSE,
     policyHash |-> ""]

ZeroClaim ==
    [claimId |-> ZeroBytes32, policyId |-> ZeroBytes32, claimant |-> ZeroAddress,
     claimAmount |-> 0, claimDescription |-> "", submissionDate |-> 0,
     status |-> "Pending", rejectionReason |-> ""]

\* A mapping reads as the zero record at a key never written.
PolicyAt(st, id) == IF id \in DOMAIN st.policies THEN st.policies[id] ELSE ZeroPolicy
ClaimAt(st, id) == IF id \in DOMAIN st.claims THEN st.claims[id] ELSE ZeroClaim

\* mapping[key] = value
Store(map, key, value) ==
    [k \in DOMAIN map \cup {key} |-> IF k = key THEN value ELSE map[k]]

Ledger ==
    [policies |-> policies, claims |-> claims, userPolicies |-> userPolicies,
     userClaims |-> userClaims, totalPolicies |-> totalPolicies,
     totalClaims |-> totalClaims, events |-> events]

\* A failed require (or a panic) rolls the transaction back to the storage st
\* it started from.
Revert(st, msg) == [err |-> msg, ret |-> NoReturn, st |-> st]
Return(value, st) == [err |-> NoError, ret |-> value, st |-> st]

----------------------------------------------------------------------------
(* Identifiers *)
\* PolicyIdOf without the counter in the preimage.
PolicyIdOf_NoCounter(holder, insuredAmount, premium, startDate, endDate, timestamp, counter) ==
    <<holder, insuredAmount, premium, startDate, endDate, timestamp, 0>>


PolicyIdOf(holder, insuredAmount, premium, startDate, endDate, timestamp, counter) ==
    <<holder, insuredAmount, premium, startDate, endDate, timestamp, counter>>

ClaimIdOf(policyId, sender, claimAmount, description, timestamp, counter) ==
    <<policyId, sender, claimAmount, description, timestamp, counter>>

\* The ids js/interact.js computes for itself: keccak256 of
\* AbiCoder.defaultAbiCoder().encode(...), the padded encoding, in which an
\* address is a 32-byte word (12 zero bytes before its 20) and a string is an
\* offset in the head with its length and bytes in the tail.  now1, now2 and
\* now3 are the three readings of Math.floor(Date.now() / 1000) the policy id
\* is computed from, dateNow the one of the claim id.
ZeroPad == "000000000000000000000000"
interact_policyId(holder, insuredAmount, premium, now1, now2, now3, term, counter) ==
    <<ZeroPad, holder, insuredAmount, premium, now1, now2 + term, now3, counter>>

interact_claimId(policyId, sender, claimAmount, description, dateNow, counter) ==
    <<policyId, ZeroPad, sender, claimAmount, "offset", dateNow, counter,
      "length", description>>

----------------------------------------------------------------------------
(* Modifiers: the revert message of the first failing require, or NoError *)
\* onlyInsurer letting every sender through.
onlyInsurer_Anyone(sender) == NoError


onlyInsurer(sender) ==
    IF sender # insurer THEN "Only insurer can perform this action" ELSE NoError

\* validPolicy without the check of isActive.
validPolicy_ExistsOnly(st, policyId) ==
    IF PolicyAt(st, policyId).policyId = ZeroBytes32 THEN "Policy does not exist"
    ELSE NoError

validPolicy(st, policyId) ==
    IF PolicyAt(st, policyId).policyId = ZeroBytes32 THEN "Policy does not exist"
    ELSE IF ~PolicyAt(st, policyId).isActive THEN "Policy is not active"
    ELSE NoError

validClaim(st, claimId) ==
    IF ClaimAt(st, claimId).claimId = ZeroBytes32 THEN "Claim does not exist"
    ELSE NoError

----------------------------------------------------------------------------
(* registerPolicy *)
\* registerPolicyRequires accepting endDate = startDate.
registerPolicyRequires_EndNotBeforeStart(t, holder, insuredAmount, premium, startDate, endDate) ==
    IF holder = ZeroAddress THEN "Invalid policy holder address"
    ELSE IF ~(insuredAmount > 0) THEN "Insured amount must be greater than 0"
    ELSE IF ~(premium >= MINIMUM_PREMIUM) THEN "Premium below minimum required"
    ELSE IF ~(endDate >= startDate) THEN "End date must be after start date"
    ELSE IF ~(endDate > t) THEN "End date must be in the future"
    ELSE NoError

\* The five requires of registerPolicy's body, in order.
registerPolicyRequires(t, holder, insuredAmount, premium, startDate, endDate) ==
    IF holder = ZeroAddress THEN "Invalid policy holder address"
    ELSE IF ~(insuredAmount > 0) THEN "Insured amount must be greater than 0"
    ELSE IF ~(premium >= MINIMUM_PREMIUM) THEN "Premium below minimum required"
    ELSE IF ~(endDate > startDate) THEN "End date must be after start date"
    ELSE IF ~(endDate > t) THEN "End date must be in the future"
    ELSE NoError

NewPolicy(policyId, holder, insuredAmount, premium, startDate, endDate, policyHash) ==
    [policyId |-> policyId, policyHolder |-> holder, insuredAmount |-> insuredAmount,
     premium |-> premium, startDate |-> startDate, endDate |-> endDate,
     isActive |-> TRUE, policyHash |-> policyHash]

PolicyRegistered(policyId, holder, insuredAmount, premium, startDate, endDate) ==
    [type |-> "PolicyRegistered", policyId |-> policyId, policyHolder |-> holder,
     insuredAmount |-> insuredAmount, premium |-> premium,
     startDate |-> startDate, endDate |-> endDate]
\* storePolicy without the push onto the holder's list.
storePolicy_NoPush(st, policyId, holder, policy) ==
    IF st.totalPolicies = UintMax THEN Revert(st, Panic_Overflow)
    ELSE Return(NoReturn,
                [st EXCEPT !.policies = Store(@, policyId, policy),
                           !.totalPolicies = @ + 1])

\* The storage writes of a registration that passed its requires.
\* totalPolicies++ is checked arithmetic: at the largest uint256 it panics and
\* the writes before it are undone.
storePolicy(st, policyId, holder, policy) ==
    IF st.totalPolicies = UintMax THEN Revert(st, Panic_Overflow)
    ELSE Return(NoReturn,
                [st EXCEPT !.policies = Store(@, policyId, policy),
                           !.userPolicies[holder] = Append(@, policyId),
                           !.totalPolicies = @ + 1])

Emit(st, event) == [st EXCEPT !.events = Append(@, event)]

registerPolicy(st, t, sender, holder, insuredAmount, premium, startDate, endDate, policyHash) ==
    IF onlyInsurer(sender) # NoError THEN Revert(st, onlyInsurer(sender))
    ELSE IF registerPolicyRequires(t, holder, insuredAmount, premium, startDate,
                                   endDate) # NoError
    THEN Revert(st, registerPolicyRequires(t, holder, insuredAmount, premium,
                                           startDate, endDate))
    ELSE LET policyId == PolicyIdOf(holder, insuredAmount, premium, startDate,
                                    endDate, t, st.totalPolicies)
             policy == NewPolicy(policyId, holder, insuredAmount, premium,
                                 startDate, endDate, policyHash)
             stored == storePolicy(st, policyId, holder, policy)
         IN  IF stored.err # NoError THEN stored
             ELSE Return(policyId,
                         Emit(stored.st,
                              PolicyRegistered(policyId, holder, insuredAmount,
                                               premium, startDate, endDate)))

----------------------------------------------------------------------------
(* submitClaim *)
\* submitClaimRequires with the end of the period excluded.
submitClaimRequires_StrictEnd(policy, t, sender, claimAmount) ==
    IF sender # policy.policyHolder THEN "Only policy holder can submit claims"
    ELSE IF ~(claimAmount > 0) THEN "Claim amount must be greater than 0"
    ELSE IF ~(t >= policy.startDate) THEN "Policy has not started yet"
    ELSE IF ~(t < policy.endDate) THEN "Policy has expired"
    ELSE NoError

\* submitClaimRequires without the check of the sender.
submitClaimRequires_AnySender(policy, t, sender, claimAmount) ==
    IF ~(claimAmount > 0) THEN "Claim amount must be greater than 0"
    ELSE IF ~(t >= policy.startDate) THEN "Policy has not started yet"
    ELSE IF ~(t <= policy.endDate) THEN "Policy has expired"
    ELSE NoError

\* submitClaimRequires testing the amount before the sender.
submitClaimRequires_AmountFirst(policy, t, sender, claimAmount) ==
    IF ~(claimAmount > 0) THEN "Claim amount must be greater than 0"
    ELSE IF sender # policy.policyHolder THEN "Only policy holder can submit claims"
    ELSE IF ~(t >= policy.startDate) THEN "Policy has not started yet"
    ELSE IF ~(t <= policy.endDate) THEN "Policy has expired"
    ELSE NoError

\* The four requires of submitClaim's body, in order.
submitClaimRequires(policy, t, sender, claimAmount) ==
    IF sender # policy.policyHolder THEN "Only policy holder can submit claims"
    ELSE IF ~(claimAmount > 0) THEN "Claim amount must be greater than 0"
    ELSE IF ~(t >= policy.startDate) THEN "Policy has not started yet"
    ELSE IF ~(t <= policy.endDate) THEN "Policy has expired"
    ELSE NoError

NewClaim(claimId, policyId, sender, claimAmount, description, t) ==
    [claimId |-> claimId, policyId |-> policyId, claimant |-> sender,
     claimAmount |-> claimAmount, claimDescription |-> description,
     submissionDate |-> t, status |-> "Pending", rejectionReason |-> ""]

ClaimSubmitted(claimId, policyId, sender, claimAmount, description) ==
    [type |-> "ClaimSubmitted", claimId |-> claimId, policyId |-> policyId,
     claimant |-> sender, claimAmount |-> claimAmount,
     claimDescription |-> description]

\* storeClaim without the push onto the claimant's list.
storeClaim_NoPush(st, claimId, sender, claim) ==
    IF st.totalClaims = UintMax THEN Revert(st, Panic_Overflow)
    ELSE Return(NoReturn,
                [st EXCEPT !.claims = Store(@, claimId, claim),
                           !.totalClaims = @ + 1])

\* The storage writes of a submission that passed its requires.
\* totalClaims++ is checked arithmetic: at the largest uint256 it panics and
\* the writes before it are undone.
storeClaim(st, claimId, sender, claim) ==
    IF st.totalClaims = UintMax THEN Revert(st, Panic_Overflow)
    ELSE Return(NoReturn,
                [st EXCEPT !.claims = Store(@, claimId, claim),
                           !.userClaims[sender] = Append(@, claimId),
                           !.totalClaims = @ + 1])

submitClaim(st, t, sender, policyId, claimAmount, description) ==
    IF validPolicy(st, policyId) # NoError THEN Revert(st, validPolicy(st, policyId))
    ELSE IF submitClaimRequires(PolicyAt(st, policyId), t, sender, claimAmount) # NoError
    THEN Revert(st, submitClaimRequires(PolicyAt(st, policyId), t, sender, claimAmount))
    ELSE LET claimId == ClaimIdOf(policyId, sender, claimAmount, description, t,
                                  st.totalClaims)
             claim == NewClaim(claimId, policyId, sender, claimAmount, description, t)
             stored == storeClaim(st, claimId, sender, claim)
         IN  IF stored.err # NoError THEN stored
             ELSE Return(claimId,
                         Emit(stored.st,
                              ClaimSubmitted(claimId, policyId, sender, claimAmount,
                                             description)))

----------------------------------------------------------------------------
(* processClaim *)

\* isPolicyValid with the start of the period excluded.
isPolicyValid_AfterStart(policy, t) ==
    policy.isActive /\ t > policy.startDate /\ t <= policy.endDate

isPolicyValid(policy, t) ==
    policy.isActive /\ t >= policy.startDate /\ t <= policy.endDate

\* isAmountValid letting every amount through.
isAmountValid_Ignored(claim, policy) == TRUE

isAmountValid(claim, policy) == claim.claimAmount <= policy.insuredAmount

\* Checked uint256 arithmetic: claimAmount * 100 panics when it leaves the word,
\* the division panics on a zero divisor.
ratioPanic(claim, policy) ==
    IF claim.claimAmount * 100 > UintMax THEN Panic_Overflow
    ELSE IF policy.insuredAmount = 0 THEN Panic_DivByZero
    ELSE NoError

isAmountReasonable(claim, policy) ==
    (claim.claimAmount * 100) \div policy.insuredAmount <= MAXIMUM_CLAIM_RATIO
\* rejectionReasonOf with no reason for the ratio.
rejectionReasonOf_NoRatioReason(claim, policyValid, amountValid, amountReasonable) ==
    IF ~policyValid THEN "Policy is not valid or has expired"
    ELSE IF ~amountValid THEN "Claim amount exceeds insured amount"
    ELSE claim.rejectionReason

\* rejectionReasonOf testing the amount before the policy.
rejectionReasonOf_AmountFirst(claim, policyValid, amountValid, amountReasonable) ==
    IF ~amountValid THEN "Claim amount exceeds insured amount"
    ELSE IF ~policyValid THEN "Policy is not valid or has expired"
    ELSE IF ~amountReasonable THEN "Claim amount exceeds maximum allowed ratio"
    ELSE claim.rejectionReason

\* The if / else-if chain that picks the reason of a rejection; a claim that
\* falls through the chain keeps the reason it had.
rejectionReasonOf(claim, policyValid, amountValid, amountReasonable) ==
    IF ~policyValid THEN "Policy is not valid or has expired"
    ELSE IF ~amountValid THEN "Claim amount exceeds insured amount"
    ELSE IF ~amountReasonable THEN "Claim amount exceeds maximum allowed ratio"
    ELSE claim.rejectionReason

\* The claim record after the decision.
decide(claim, approved, policyValid, amountValid, amountReasonable) ==
    IF approved THEN [claim EXCEPT !.status = "Approved"]
    ELSE [claim EXCEPT !.status = "Rejected",
                       !.rejectionReason = rejectionReasonOf(claim, policyValid,
                                               amountValid, amountReasonable)]

ClaimProcessed(claim) ==
    [type |-> "ClaimProcessed", claimId |-> claim.claimId, policyId |-> claim.policyId,
     status |-> claim.status, reason |-> claim.rejectionReason]
\* requirePending letting a decided claim through.
requirePending_Always(claim) == NoError

\* require(claim.status == ClaimStatus.Pending, ...)
requirePending(claim) ==
    IF claim.status # "Pending" THEN "Claim already processed" ELSE NoError

processClaim(st, t, claimId) ==
    LET claim == ClaimAt(st, claimId)
        policy == PolicyAt(st, claim.policyId)
    IN  IF validClaim(st, claimId) # NoError THEN Revert(st, validClaim(st, claimId))
        ELSE IF requirePending(claim) # NoError THEN Revert(st, requirePending(claim))
        ELSE IF ratioPanic(claim, policy) # NoError
        THEN Revert(st, ratioPanic(claim, policy))
        ELSE LET policyValid == isPolicyValid(policy, t)
                 amountValid == isAmountValid(claim, policy)
                 amountReasonable == isAmountReasonable(claim, policy)
                 approved == policyValid /\ amountValid /\ amountReasonable
                 decided == decide(claim, approved, policyValid, amountValid,
                                   amountReasonable)
             IN  Return(approved,
                        Emit([st EXCEPT !.claims[claimId] = decided],
                             ClaimProcessed(decided)))

----------------------------------------------------------------------------
(* deactivatePolicy *)

PolicyDeactivated(policyId, holder) ==
    [type |-> "PolicyDeactivated", policyId |-> policyId, policyHolder |-> holder]

\* deactivatePolicy flipping isActive of any stored policy.
deactivatePolicy_Toggle(st, sender, policyId) ==
    IF onlyInsurer(sender) # NoError THEN Revert(st, onlyInsurer(sender))
    ELSE IF policyId \notin DOMAIN st.policies THEN Revert(st, "Policy does not exist")
    ELSE Return(NoReturn,
                Emit([st EXCEPT !.policies[policyId].isActive = ~@],
                     PolicyDeactivated(policyId, PolicyAt(st, policyId).policyHolder)))

deactivatePolicy(st, sender, policyId) ==
    IF onlyInsurer(sender) # NoError THEN Revert(st, onlyInsurer(sender))
    ELSE IF validPolicy(st, policyId) # NoError THEN Revert(st, validPolicy(st, policyId))
    ELSE Return(NoReturn,
                Emit([st EXCEPT !.policies[policyId].isActive = FALSE],
                     PolicyDeactivated(policyId, PolicyAt(st, policyId).policyHolder)))

----------------------------------------------------------------------------
(* View functions: they return the storage they were given *)
\* getPolicy refusing a deactivated policy.
getPolicy_ActiveOnly(st, policyId) ==
    IF validPolicy(st, policyId) # NoError THEN Revert(st, validPolicy(st, policyId))
    ELSE Return(PolicyAt(st, policyId), st)

getPolicy(st, policyId) ==
    IF PolicyAt(st, policyId).policyId = ZeroBytes32
    THEN Revert(st, "Policy does not exist")
    ELSE Return(PolicyAt(st, policyId), st)

getClaim(st, claimId) ==
    IF ClaimAt(st, claimId).claimId = ZeroBytes32
    THEN Revert(st, "Claim does not exist")
    ELSE Return(ClaimAt(st, claimId), st)

getUserPolicies(st, user) == Return(st.userPolicies[user], st)

getUserClaims(st, user) == Return(st.userClaims[user], st)

\* activePolicies is the literal 0.
getContractStats(st) == Return(<<st.totalPolicies, st.totalClaims, 0>>, st)

isPolicyValidForClaims(st, t, policyId) ==
    LET policy == PolicyAt(st, policyId)
    IN  Return(/\ policy.policyId # ZeroBytes32
               /\ policy.isActive
               /\ t >= policy.startDate
               /\ t <= policy.endDate, st)

----------------------------------------------------------------------------
(* The Fabric simulator: the functions behind POST /chaincode/invoke.  Times *)
(* are readings of the wall clock, counted in days; toISOString, which       *)
(* renders a time as text in an order-preserving way, is left out.           *)

\* throw new Error(msg): the Map stays as the function left it.
Throw(st, msg) == [err |-> msg, ret |-> NoReturn, st |-> st]

\* { ...data, k: v, ... }: the fields of data, those of overrides on top.
Spread(data, overrides) == overrides @@ data

\* A number of the program is an IEEE-754 double.  The model holds it by its
\* shortest decimal form, the one Number.prototype.toString writes: an integer
\* of the model when it is whole and below 10^9, otherwise the record
\* [mantissa, exponent] of the digits as text (a "-" first when negative, no
\* zero at either end) and the power of ten they are multiplied by.  NaN and
\* the two infinities are records of their own: none of them is the text of
\* its name.
NaN == [number |-> "NaN"]
Infinity == [number |-> "Infinity"]
NegativeInfinity == [number |-> "-Infinity"]

\* Number.isFinite, by the text of the value: equality of a number and a text
\* is not evaluated.
isFinite(v) ==
    ToString(v) \notin {ToString(NaN), ToString(Infinity), ToString(NegativeInfinity)}

\* The character of a text at a place, "" past its end.
CharAt(s, i) == IF i <= Len(s) THEN SubSeq(s, i, i) ELSE ""

\* The digits and their values.
Digit ==
    [c \in {"0", "1", "2", "3", "4", "5", "6", "7", "8", "9"} |->
        CHOOSE d \in 0 .. 9 : ToString(d) = c]

\* The place after the run of characters of the set that starts at i.
RECURSIVE Span(_, _, _)
Span(s, i, chars) == IF CharAt(s, i) \in chars THEN Span(s, i + 1, chars) ELSE i

\* The place of the last character of s up to i that is not a zero.
RECURSIVE ZerosBack(_, _)
ZerosBack(s, i) == IF i >= 1 /\ CharAt(s, i) = "0" THEN ZerosBack(s, i - 1) ELSE i

\* The number the digits from i up to j (j left out) write.
RECURSIVE DigitsValue(_, _, _)
DigitsValue(s, i, j) ==
    IF j <= i THEN 0 ELSE 10 * DigitsValue(s, i, j - 1) + Digit[CharAt(s, j - 1)]

\* F of the value of x, x being computed once.
Let(x, F(_)) == CHOOSE v \in {F(y) : y \in {x}} : TRUE

\* The same number for the digits of an exponent, a million at the least when
\* it is that or more: an exponent that large makes every literal 0 or an
\* infinity.
RECURSIVE ExponentValue(_, _, _)
ExponentValue(s, i, j) ==
    IF j <= i THEN 0
    ELSE Let(ExponentValue(s, i, j - 1), LAMBDA v :
             IF v >= 1000000 THEN v ELSE 10 * v + Digit[CharAt(s, j - 1)])

\* The exponent part at i (e or E, a sign, digits); 0 when there is none.
ExponentAt(s, i) ==
    Let(IF CharAt(s, i + 1) \in {"+", "-"} THEN i + 2 ELSE i + 1, LAMBDA expStart :
    Let(ExponentValue(s, expStart, Span(s, expStart, DOMAIN Digit)), LAMBDA exponent :
        IF CharAt(s, i) \notin {"e", "E"} THEN 0
        ELSE IF CharAt(s, i + 1) = "-" THEN 0 - exponent
        ELSE exponent))

\* The 53 bits of a double and the powers of two and of ten around them are
\* beyond the integers of the model.  A natural number of any size is held by
\* its digits of base 10^4, the lowest first, the highest not zero; << >> is
\* zero.
Base == 10000
Limb(a, i) == IF i <= Len(a) THEN a[i] ELSE 0

\* a without the zeros on top.
Trim(a) ==
    SubSeq(a, 1, CHOOSE top \in 0 .. Len(a) :
                     /\ top = 0 \/ a[top] # 0
                     /\ \A i \in top + 1 .. Len(a) : a[i] = 0)

FromDigits(text) ==
    Trim([i \in 1 .. (Len(text) + 3) \div 4 |->
            DigitsValue(text, IF Len(text) - 4 * i + 1 < 1 THEN 1 ELSE Len(text) - 4 * i + 1,
                        Len(text) - 4 * i + 5)])

\* a < b
Less(a, b) ==
    IF Len(a) # Len(b) THEN Len(a) < Len(b)
    ELSE \E i \in 1 .. Len(a) : a[i] < b[i] /\ \A j \in i + 1 .. Len(a) : a[j] = b[j]

\* The digits from lo to hi of the number whose digit i, before carrying, is
\* raw[i] (negative when borrowing), with the carry into lo; and the carry out
\* of hi.  The range is halved, so that the nesting stays shallow.
RECURSIVE Carry(_, _, _, _)
Carry(raw, lo, hi, carry) ==
    IF lo > hi THEN [digits |-> << >>, carry |-> carry]
    ELSE IF lo = hi
    THEN [digits |-> <<(raw[lo] + carry) % Base>>, carry |-> (raw[lo] + carry) \div Base]
    ELSE Let(Carry(raw, lo, (lo + hi) \div 2, carry), LAMBDA low :
         Let(Carry(raw, (lo + hi) \div 2 + 1, hi, low.carry), LAMBDA high :
             [digits |-> low.digits \o high.digits, carry |-> high.carry]))
Carried(raw) ==
    Let(Carry(raw, 1, Len(raw), 0), LAMBDA c :
        Trim(IF c.carry = 0 THEN c.digits ELSE c.digits \o <<c.carry>>))

\* a + b; a - b, b being a at the most; a * k, k being Base at the most
Add(a, b) ==
    Carried([i \in 1 .. (IF Len(a) > Len(b) THEN Len(a) ELSE Len(b)) |->
                Limb(a, i) + Limb(b, i)])
Sub(a, b) == Carried([i \in 1 .. Len(a) |-> a[i] - Limb(b, i)])
Times(a, k) == Carried([i \in 1 .. Len(a) |-> a[i] * k])

\* a * 10^k and a * 2^k
TimesPow10(a, k) ==
    IF Len(a) = 0 THEN a ELSE [i \in 1 .. k \div 4 |-> 0] \o Times(a, 10 ^ (k % 4))
RECURSIVE TimesPow2(_, _)
TimesPow2(a, k) ==
    IF k <= 13 THEN Times(a, 2 ^ k)
    ELSE Let(TimesPow2(a, k \div 2), LAMBDA half : TimesPow2(half, k - k \div 2))

\* How often b goes into a (nine times at the most), and what is left.
Count(a, b) ==
    Let(CHOOSE c \in 0 .. 9 : ~Less(a, Times(b, c)) /\ Less(a, Times(b, c + 1)),
        LAMBDA times : [times |-> times, left |-> Sub(a, Times(b, times))])

\* a divided by b: the digits of the quotient from place hi down to place lo,
\* and what is left; the quotient is below 10^(hi + 1).
RECURSIVE Divide(_, _, _, _)
Divide(a, b, hi, lo) ==
    IF hi = lo
    THEN Let(Count(a, TimesPow10(b, lo)), LAMBDA c :
             [digits |-> ToString(c.times), left |-> c.left])
    ELSE Let(Divide(a, b, hi, (hi + lo) \div 2 + 1), LAMBDA high :
         Let(Divide(high.left, b, (hi + lo) \div 2, lo), LAMBDA low :
             [digits |-> high.digits \o low.digits, left |-> low.left]))

\* The greatest e from e on with 2^e <= num / den.
RECURSIVE Exp2(_, _, _)
Exp2(num, den, e) ==
    IF Less(IF e + 1 < 0 THEN TimesPow2(num, 0 - (e + 1)) ELSE num,
            IF e + 1 > 0 THEN TimesPow2(den, e + 1) ELSE den)
    THEN e ELSE Exp2(num, den, e + 1)

\* The double nearest to digits * 10^exponent, a tie going to the even one:
\* [m, q] for m * 2^q with m below 2^53 and q at least -1074, m at least 2^52
\* unless q is -1074.
Nearest(digits, exponent) ==
    Let([num |-> TimesPow10(FromDigits(digits), IF exponent > 0 THEN exponent ELSE 0),
         den |-> TimesPow10(<<1>>, IF exponent < 0 THEN 0 - exponent ELSE 0)], LAMBDA x :
    Let(Exp2(x.num, x.den, ((Len(digits) + exponent - 1) * 3321928) \div 1000000 - 1),
        LAMBDA e :
    Let(IF e - 52 < -1074 THEN -1074 ELSE e - 52, LAMBDA q :
    Let(IF q > 0 THEN TimesPow2(x.den, q) ELSE x.den, LAMBDA unit :
    Let(Divide(IF q < 0 THEN TimesPow2(x.num, 0 - q) ELSE x.num, unit, 15, 0), LAMBDA c :
    Let(FromDigits(c.digits), LAMBDA floor :
    Let(IF \/ Less(unit, Times(c.left, 2))
           \/ ~Less(Times(c.left, 2), unit) /\ Limb(floor, 1) % 2 = 1
        THEN Add(floor, <<1>>) ELSE floor, LAMBDA m :
        IF Less(m, TimesPow2(<<1>>, 53)) THEN [m |-> m, q |-> q]
        ELSE [m |-> TimesPow2(<<1>>, 52), q |-> q + 1])))))))

\* One more digit of the shortest decimal between the midpoints to the two
\* neighbours of a double, the nearest to the double when there are more.  Of
\* g, left / s is what is left of the double after g.digits, plus / s and
\* minus / s are the distances to the midpoints, which belong to the double
\* when it is even, and done says that the digits are all.
Digits(g, s, even) ==
    Let(Count(Times(g.left, 10), s), LAMBDA c :
    Let([plus |-> Times(g.plus, 10), minus |-> Times(g.minus, 10),
         twice |-> Times(c.left, 2)], LAMBDA m :
    Let([low |-> IF even THEN ~Less(m.minus, c.left) ELSE Less(c.left, m.minus),
         high |-> IF even THEN ~Less(Add(c.left, m.plus), s)
                  ELSE Less(s, Add(c.left, m.plus))], LAMBDA near :
        [digits |-> g.digits \o ToString(
                        IF ~near.high THEN c.times
                        ELSE IF ~near.low THEN c.times + 1
                        ELSE IF Less(m.twice, s) THEN c.times
                        ELSE IF Less(s, m.twice) THEN c.times + 1
                        ELSE c.times + (c.times % 2)),
         left |-> c.left, plus |-> m.plus, minus |-> m.minus,
         done |-> near.low \/ near.high])))

\* Up to count more digits.  The count is halved, so that the nesting stays
\* shallow.
RECURSIVE Generate(_, _, _, _)
Generate(g, s, even, count) ==
    IF g.done \/ count = 0 THEN g
    ELSE IF count = 1 THEN Digits(g, s, even)
    ELSE Let(Generate(g, s, even, count \div 2), LAMBDA half :
             Generate(half, s, even, count - count \div 2))

\* The least k from k on with (r + mPlus) / s below 10^k, or at 10^k when the
\* midpoint does not belong to the double.
RECURSIVE Exp10(_, _, _, _)
Exp10(high, s, even, k) ==
    Let(IF k < 0 THEN TimesPow10(high, 0 - k) ELSE high, LAMBDA a :
    Let(IF k > 0 THEN TimesPow10(s, k) ELSE s, LAMBDA b :
        IF Less(a, b) \/ (~even /\ ~Less(b, a)) THEN k ELSE Exp10(high, s, even, k + 1)))

\* The shortest decimal that reads back as the double m * 2^q, 17 digits at the
\* most: its digits and the place of the point before them (0.digits *
\* 10^point); from is a place at or below it.
Shortest(m, q, from) ==
    Let(IF Less(m, TimesPow2(<<1>>, 52)) \/ Less(TimesPow2(<<1>>, 52), m) \/ q = -1074
        THEN 1 ELSE 2, LAMBDA wide :
    Let([r |-> Times(TimesPow2(m, (IF q > 0 THEN q ELSE 0) + 1), wide),
         s |-> Times(TimesPow2(<<1>>, (IF q < 0 THEN 0 - q ELSE 0) + 1), wide),
         mPlus |-> Times(TimesPow2(<<1>>, IF q > 0 THEN q ELSE 0), wide),
         mMinus |-> TimesPow2(<<1>>, IF q > 0 THEN q ELSE 0),
         even |-> m[1] % 2 = 0], LAMBDA v :
    Let(Exp10(Add(v.r, v.mPlus), v.s, v.even, from), LAMBDA k :
        [digits |-> Generate([digits |-> "",
                              left |-> IF k < 0 THEN TimesPow10(v.r, 0 - k) ELSE v.r,
                              plus |-> IF k < 0 THEN TimesPow10(v.mPlus, 0 - k)
                                       ELSE v.mPlus,
                              minus |-> IF k < 0 THEN TimesPow10(v.mMinus, 0 - k)
                                        ELSE v.mMinus,
                              done |-> FALSE],
                             IF k > 0 THEN TimesPow10(v.s, k) ELSE v.s, v.even, 17).digits,
         point |-> k])))

\* The number of the model for the digits (no zero at either end) times
\* 10^exponent.
Decimal(negative, digits, exponent) ==
    IF exponent >= 0 /\ Len(digits) + exponent <= 9
    THEN (IF negative THEN -1 ELSE 1) * DigitsValue(digits, 1, Len(digits) + 1) * 10 ^ exponent
    ELSE [mantissa |-> (IF negative THEN "-" ELSE "") \o digits, exponent |-> exponent]

\* The double of the decimal literal all * 10^exponent, all being digits.  A
\* literal at 10^309 or above is an infinity and one below 10^-324 is zero; one
\* of 15 digits at the most between 10^-307 and 10^308 is the shortest decimal
\* of its double; any other is rounded to its double, and that written back.
Double(negative, all, exponent) ==
    Let([first |-> Span(all, 1, {"0"}), last |-> ZerosBack(all, Len(all))], LAMBDA at :
    Let([digits |-> SubSeq(all, at.first, at.last),
         scale |-> exponent + (Len(all) - at.last)], LAMBDA d :
        IF at.last < at.first THEN 0
        ELSE IF Len(d.digits) + d.scale > 309
        THEN (IF negative THEN NegativeInfinity ELSE Infinity)
        ELSE IF Len(d.digits) + d.scale < -323 THEN 0
        ELSE IF /\ Len(d.digits) <= 15
                /\ Len(d.digits) + d.scale >= -306
                /\ Len(d.digits) + d.scale <= 308
        THEN Decimal(negative, d.digits, d.scale)
        ELSE Let(Nearest(d.digits, d.scale), LAMBDA double :
                 IF Len(double.m) = 0 THEN 0
                 ELSE IF double.q > 971
                 THEN (IF negative THEN NegativeInfinity ELSE Infinity)
                 ELSE Let(Shortest(double.m, double.q, Len(d.digits) + d.scale - 1),
                          LAMBDA short :
                          Decimal(negative, short.digits,
                                  short.point - Len(short.digits))))))

\* The white space parseFloat drops: TAB, LF, VT, FF, CR, SP, NBSP, U+1680 and
\* the byte order mark.  U+2000 to U+200A, U+2028, U+2029, U+202F, U+205F and
\* U+3000, which it drops as well, cannot be written in a text of the model.
WhiteSpace == {"\t", "\n", "", "\f", "\r", " ", " ", " ", "﻿"}

\* The decimal literal at the front of a text, leading white space dropped:
\* the places of its parts and its sign.
StrDecimalLiteral(s) ==
    Let(Span(s, 1, WhiteSpace), LAMBDA start :
    Let(IF CharAt(s, start) \in {"+", "-"} THEN start + 1 ELSE start, LAMBDA intStart :
    Let(Span(s, intStart, DOMAIN Digit), LAMBDA intEnd :
    Let(IF CharAt(s, intEnd) = "." THEN intEnd + 1 ELSE intEnd, LAMBDA fracStart :
    Let(Span(s, fracStart, DOMAIN Digit), LAMBDA fracEnd :
        [negative |-> CharAt(s, start) = "-", intStart |-> intStart, intEnd |-> intEnd,
         fracStart |-> fracStart, fracEnd |-> fracEnd,
         exponent |-> ExponentAt(s, fracEnd)])))))

\* undefined, which is no text.
Undefined == [value |-> "undefined"]

\* a === b on texts and undefined, by the text of the value: equality of a text
\* and undefined is not evaluated.
StrictEquals(a, b) == ToString(a) = ToString(b)

\* ToString of a text or undefined, as in ${v} of a template literal and in the
\* first step of parseFloat: a text as it is, undefined as its name.
TemplateText(v) == IF StrictEquals(v, Undefined) THEN "undefined" ELSE v

\* parseFloat: leading white space is dropped and the longest prefix that is a
\* decimal literal (sign, digits, fraction, exponent) or Infinity is the value;
\* NaN when there is none.
parseFloat(string) ==
    Let(TemplateText(string), LAMBDA s :
    Let(StrDecimalLiteral(s), LAMBDA l :
        IF l.intStart + 7 <= Len(s) /\ SubSeq(s, l.intStart, l.intStart + 7) = "Infinity"
        THEN (IF l.negative THEN NegativeInfinity ELSE Infinity)
        ELSE IF l.intEnd = l.intStart /\ l.fracEnd = l.fracStart THEN NaN
        ELSE Double(l.negative,
                    SubSeq(s, l.intStart, l.intEnd - 1) \o SubSeq(s, l.fracStart, l.fracEnd - 1),
                    l.exponent - (l.fracEnd - l.fracStart))))

\* Number.prototype.toString: the digits with the point at its place when that
\* is among the first 21 places or up to six zeros before the digits, the
\* first digit, the others as a fraction and the exponent otherwise.
NumberToString(n) ==
    Let(ToString(n), LAMBDA text :
        IF ~isFinite(n) THEN n.number
        ELSE IF SubSeq(text, 1, 1) # "[" THEN text
        ELSE Let(IF CharAt(n.mantissa, 1) = "-" THEN "-" ELSE "", LAMBDA sign :
             Let(SubSeq(n.mantissa, Len(sign) + 1, Len(n.mantissa)), LAMBDA digits :
             Let(Len(digits) + n.exponent, LAMBDA point :
                 sign \o
                 (IF Len(digits) <= point /\ point <= 21
                  THEN digits \o SubSeq("00000000000000000000", 1, n.exponent)
                  ELSE IF 0 < point /\ point <= 21
                  THEN SubSeq(digits, 1, point) \o "." \o SubSeq(digits, point + 1, Len(digits))
                  ELSE IF -6 < point /\ point <= 0
                  THEN "0." \o SubSeq("00000", 1, 0 - point) \o digits
                  ELSE SubSeq(digits, 1, 1)
                       \o (IF Len(digits) > 1 THEN "." \o SubSeq(digits, 2, Len(digits)) ELSE "")
                       \o "e" \o (IF point > 0 THEN "+" ELSE "-")
                       \o ToString(IF point > 0 THEN point - 1 ELSE 1 - point))))))

\* res.json(body) read back by the client (JSON.stringify, then JSON.parse), on
\* a record of the Map: a property that holds undefined, of the record or of
\* its data, is left out; a field that holds NaN or an infinity comes back
\* null; a text, that of the name of one of them too, comes back as it is.
Null == [value |-> "null"]
JSON(record) ==
    LET Defined(object) ==
            {f \in DOMAIN object : ~StrictEquals(object[f], Undefined)}
    IN  [f \in Defined(record) |->
            IF f = "data"
            THEN [g \in Defined(record.data) |->
                     IF isFinite(record.data[g]) THEN record.data[g] ELSE Null]
            ELSE record[f]]

\* Boolean.prototype.toString
BooleanToString(b) == IF b THEN "true" ELSE "false"

\* args[i] of the JSON array of a request: undefined past its end.  args[1]
\* here is args[0] there.
Arg(args, i) == IF i \in DOMAIN args THEN args[i] ELSE Undefined

\* this.ledger, a Map, is held as the sequence of its entries in the order
\* their keys were first set, which is the order Map.prototype.values gives.
\* Has is the test of what get returned, if (!record).
Has(map, key) == \E i \in DOMAIN map : StrictEquals(map[i].key, key)

\* Map.prototype.get: undefined when the key was never set.
Get(map, key) ==
    IF Has(map, key)
    THEN map[CHOOSE i \in DOMAIN map : StrictEquals(map[i].key, key)].value
    ELSE Undefined

\* Map.prototype.set: a key already there keeps its place and gets the value;
\* a new one goes to the end.
Set(map, key, value) ==
    IF Has(map, key)
    THEN [i \in DOMAIN map |->
             IF StrictEquals(map[i].key, key) THEN [key |-> key, value |-> value]
             ELSE map[i]]
    ELSE Append(map, [key |-> key, value |-> value])

\* The keys of the Map, as a set.
Keys(map) == {map[i].key : i \in DOMAIN map}

\* createPatientRecord starting a record as submitted.  t1 and t2 are the two
\* readings of the clock, new Date() for createdAt and new Date() for updatedAt.
createPatientRecord_Submitted(store, t1, t2, data) ==
    LET record == [type |-> "PatientRecord", id |-> data.patientId,
                   data |-> Spread(data, [status |-> "submitted", createdAt |-> t1,
                                          updatedAt |-> t2])]
    IN  Return(record, Set(store, data.patientId, record))

createPatientRecord(store, t1, t2, data) ==
    LET record == [type |-> "PatientRecord", id |-> data.patientId,
                   data |-> Spread(data, [status |-> "pending", createdAt |-> t1,
                                          updatedAt |-> t2])]
    IN  Return(record, Set(store, data.patientId, record))

\* createClaimRequest leaving a record it finds under the id in place.
createClaimRequest_IfAbsent(store, t1, t2, data) ==
    LET claim == [type |-> "ClaimRequest", id |-> data.claimId,
                  data |-> Spread(data, [status |-> "submitted", createdAt |-> t1,
                                         updatedAt |-> t2])]
    IN  Return(claim, IF Has(store, data.claimId) THEN store
                      ELSE Set(store, data.claimId, claim))

\* t1 and t2 are its two readings of the clock, as in createPatientRecord.
createClaimRequest(store, t1, t2, data) ==
    LET claim == [type |-> "ClaimRequest", id |-> data.claimId,
                  data |-> Spread(data, [status |-> "submitted", createdAt |-> t1,
                                         updatedAt |-> t2])]
    IN  Return(claim, Set(store, data.claimId, claim))
\* updateClaimStatus writing a record when it finds none.
updateClaimStatus_Upsert(store, t, claimId, status, ethereumTxHash) ==
    LET found == IF Has(store, claimId) THEN Get(store, claimId)
                 ELSE [type |-> "ClaimRequest", id |-> claimId, data |-> << >>]
        claim == [found EXCEPT !.data =
                     Spread(@, [status |-> status, ethereumTxHash |-> ethereumTxHash,
                                updatedAt |-> t])]
    IN  Return(claim, Set(store, claimId, claim))

\* updateClaimStatus writing a new record of the status in place of the one
\* it found.
updateClaimStatus_Recreate(store, t, claimId, status, ethereumTxHash) ==
    IF ~Has(store, claimId) THEN Throw(store, "Claim " \o TemplateText(claimId) \o " not found")
    ELSE LET claim == [type |-> "ClaimRequest", id |-> claimId,
                       data |-> [claimId |-> claimId, status |-> status,
                                 ethereumTxHash |-> ethereumTxHash,
                                 createdAt |-> t, updatedAt |-> t]]
         IN  Return(claim, Set(store, claimId, claim))

\* The record under claimId, of whatever type, gets the status, the hash and a
\* new updatedAt.
updateClaimStatus(store, t, claimId, status, ethereumTxHash) ==
    IF ~Has(store, claimId) THEN Throw(store, "Claim " \o TemplateText(claimId) \o " not found")
    ELSE LET claim == [Get(store, claimId) EXCEPT !.data =
                          Spread(@, [status |-> status,
                                     ethereumTxHash |-> ethereumTxHash,
                                     updatedAt |-> t])]
         IN  Return(claim, Set(store, claimId, claim))

VerificationIdOf(policyId, patientId) ==
    "VERIFICATION_" \o TemplateText(policyId) \o "_" \o TemplateText(patientId)

\* verifyPolicyWithEthereum with the time of the call in the id.
verifyPolicyWithEthereum_TimedId(store, t, data) ==
    LET verification == [type |-> "PolicyVerification",
                         id |-> VerificationIdOf(data.policyId, data.patientId)
                                    \o "_" \o ToString(t),
                         data |-> Spread(data, [verifiedAt |-> t])]
    IN  Return(verification, Set(store, verification.id, verification))

verifyPolicyWithEthereum(store, t, data) ==
    LET verification == [type |-> "PolicyVerification",
                         id |-> VerificationIdOf(data.policyId, data.patientId),
                         data |-> Spread(data, [verifiedAt |-> t])]
    IN  Return(verification, Set(store, verification.id, verification))

\* getPatientRecord giving back whatever is stored under the id.
getPatientRecord_AnyType(store, patientId) ==
    IF ~Has(store, patientId)
    THEN Throw(store, "Patient record " \o TemplateText(patientId) \o " not found")
    ELSE Return(Get(store, patientId), store)

getPatientRecord(store, patientId) ==
    IF ~Has(store, patientId) \/ Get(store, patientId).type # "PatientRecord"
    THEN Throw(store, "Patient record " \o TemplateText(patientId) \o " not found")
    ELSE Return(Get(store, patientId), store)

getClaimRequest(store, claimId) ==
    IF ~Has(store, claimId) \/ Get(store, claimId).type # "ClaimRequest"
    THEN Throw(store, "Claim request " \o TemplateText(claimId) \o " not found")
    ELSE Return(Get(store, claimId), store)

\* Array.from(this.ledger.values()): the records in the order of the Map, that
\* in which their keys were first set.
Values(store) == [i \in DOMAIN store |-> store[i].value]

\* item.data[field]: undefined when the record has no such field.
FieldOf(item, field) ==
    IF field \in DOMAIN item.data THEN item.data[field] ELSE Undefined

\* Array.prototype.filter with the callbacks of the four queries.
IsPatientRecord(item) == item.type = "PatientRecord"
IsClaimRequest(item) == item.type = "ClaimRequest"

getAllPatientRecords(store) == Return(SelectSeq(Values(store), IsPatientRecord), store)

getAllClaimRequests(store) == Return(SelectSeq(Values(store), IsClaimRequest), store)

\* queryRecordsByHospital matching on the hospital alone.
queryRecordsByHospital_AnyType(store, hospitalId) ==
    LET OfHospital(item) == StrictEquals(FieldOf(item, "hospitalId"), hospitalId)
    IN  Return(SelectSeq(Values(store), OfHospital), store)

queryRecordsByHospital(store, hospitalId) ==
    LET OfHospital(item) ==
            /\ item.type = "PatientRecord"
            /\ StrictEquals(FieldOf(item, "hospitalId"), hospitalId)
    IN  Return(SelectSeq(Values(store), OfHospital), store)

queryClaimsByInsurance(store, insuranceId) ==
    LET OfInsurance(item) ==
            /\ item.type = "ClaimRequest"
            /\ StrictEquals(FieldOf(item, "insuranceId"), insuranceId)
    IN  Return(SelectSeq(Values(store), OfInsurance), store)

\* args is the JSON array of the request.
queryChaincode(store, func, args) ==
    CASE func = "GetPatientRecord" -> getPatientRecord(store, Arg(args, 1))
      [] func = "GetClaimRequest" -> getClaimRequest(store, Arg(args, 1))
      [] func = "GetAllPatientRecords" -> getAllPatientRecords(store)
      [] func = "GetAllClaimRequests" -> getAllClaimRequests(store)
      [] func = "QueryRecordsByHospital" -> queryRecordsByHospital(store, Arg(args, 1))
      [] func = "QueryClaimsByInsurance" -> queryClaimsByInsurance(store, Arg(args, 1))
      [] OTHER -> Throw(store, "Unknown query function: " \o TemplateText(func))

\* The sample record the constructor adds; the function returns nothing.
initializeLedger(store, t1, t2) ==
    LET r == createPatientRecord(store, t1, t2,
                 [patientId |-> "PAT001", hospitalId |-> "HOSP001",
                  insuranceId |-> "INS001", diagnosis |-> "Routine Checkup",
                  treatment |-> "General Consultation", cost |-> 150])
    IN  Return(Undefined, r.st)

\* args is the JSON array of the request; Arg(args, 1) here is Arg(args, 0) there.  t1 and
\* t2 are the readings of the clock the called function makes; the two that
\* read it once read t1.
invokeChaincode(store, t1, t2, func, args) ==
    CASE func = "CreatePatientRecord" ->
            createPatientRecord(store, t1, t2,
                [patientId |-> Arg(args, 1), hospitalId |-> Arg(args, 2),
                 insuranceId |-> Arg(args, 3), recordHash |-> Arg(args, 4),
                 diagnosis |-> Arg(args, 5), treatment |-> Arg(args, 6),
                 cost |-> parseFloat(Arg(args, 7))])
      [] func = "CreateClaimRequest" ->
            createClaimRequest(store, t1, t2,
                [claimId |-> Arg(args, 1), patientId |-> Arg(args, 2),
                 hospitalId |-> Arg(args, 3),
                 insuranceId |-> Arg(args, 4), description |-> Arg(args, 5),
                 policyId |-> Arg(args, 6), amount |-> parseFloat(Arg(args, 7))])
      [] func = "UpdateClaimStatus" ->
            updateClaimStatus(store, t1, Arg(args, 1), Arg(args, 2), Arg(args, 3))
      [] func = "VerifyPolicyWithEthereum" ->
            verifyPolicyWithEthereum(store, t1,
                [policyId |-> Arg(args, 1), patientId |-> Arg(args, 2),
                 isValid |-> StrictEquals(Arg(args, 3), "true"),
                 coverageAmount |-> parseFloat(Arg(args, 4)), expiryDate |-> Arg(args, 5),
                 ethereumTxHash |-> Arg(args, 6)])
      [] OTHER -> Throw(store, "Unknown function: " \o TemplateText(func))

\* POST /chaincode/invoke: the response, and the Map after it.  Of the body,
\* transactionId (a uuid) and timestamp (one more reading of the clock) are
\* left out: no caller reads them.
postInvoke(store, t1, t2, func, args) ==
    Let(invokeChaincode(store, t1, t2, func, args), LAMBDA r :
        IF r.err = NoError
        THEN [status |-> "200", body |-> [success |-> TRUE, result |-> JSON(r.ret)],
              st |-> r.st]
        ELSE [status |-> "500", body |-> [success |-> FALSE, error |-> r.err], st |-> r.st])

----------------------------------------------------------------------------
(* The bridge: each method posts one invoke and gives back response.data.result *)
(* or rethrows the error of the request.                                       *)

\* await axios.post(...): a response outside 2xx is thrown.
axiosPost(response) ==
    IF response.status = "200" THEN Return(response.body.result, response.st)
    ELSE Throw(response.st, "Request failed with status code " \o response.status)

\* now1 and now2 are the bridge's two readings of Date.now(), t the reading of
\* the simulator when the request is handled.
syncPolicyToFabric(store, now1, now2, t, policyId, patientId) ==
    LET policyData == [policyId |-> policyId, patientId |-> patientId,
                       isValid |-> TRUE, coverageAmount |-> 10000,
                       expiryDate |-> now1 + days365,
                       ethereumTxHash |-> "ETH_TX_" \o ToString(now2)]
    IN  axiosPost(postInvoke(store, t, t, "VerifyPolicyWithEthereum",
            <<policyData.policyId, policyData.patientId,
              BooleanToString(policyData.isValid),
              NumberToString(policyData.coverageAmount), policyData.expiryDate,
              policyData.ethereumTxHash>>))

\* dateNow is the bridge's reading of Date.now(), t1 and t2 the readings of the
\* simulator when the request is handled.
bridgeCreatePatientRecord(store, dateNow, t1, t2, patientData) ==
    LET recordHash == "HASH_" \o ToString(dateNow) \o "_" \o patientData.patientId
    IN  axiosPost(postInvoke(store, t1, t2, "CreatePatientRecord",
            <<patientData.patientId, patientData.hospitalId, patientData.insuranceId,
              recordHash, patientData.diagnosis, patientData.treatment,
              NumberToString(patientData.cost)>>))

\* random is the text Math.random().toString(36).substr(2, 9) gave; dateNow is
\* the bridge's reading of Date.now() before the request, t1 and t2 are the
\* readings of the simulator, t3 is the bridge's reading after the response.
bridgeCreateClaimRequest(store, dateNow, t1, t2, t3, random, claimData) ==
    LET claimId == "CLAIM_" \o ToString(dateNow) \o "_" \o random
    IN  Let(axiosPost(postInvoke(store, t1, t2, "CreateClaimRequest",
                <<claimId, claimData.patientId, claimData.hospitalId,
                  claimData.insuranceId, claimData.description, claimData.policyId,
                  NumberToString(claimData.amount)>>)), LAMBDA r :
            IF r.err # NoError THEN r
            ELSE Return([claimId |-> claimId, result |-> r.ret,
                         ethereumTxHash |-> "ETH_TX_" \o ToString(t3)], r.st))

bridgeUpdateClaimStatus(store, t, claimId, status, ethereumTxHash) ==
    axiosPost(postInvoke(store, t, t, "UpdateClaimStatus",
                         <<claimId, status, ethereumTxHash>>))

----------------------------------------------------------------------------
(* The earlier deployment: PolicyStorage, HealthToken (an ERC20) and          *)
(* HealthInsurance, which pays a reward out of its own token balance when it *)
(* approves a claim.  st holds the storage of the three and their event log. *)

\* keccak256(abi.encodePacked(text)): a digest without collisions, never zero.
keccak256(text) == <<text>>

PolicyStored(policyId, policyData) ==
    [type |-> "PolicyStored", policyId |-> policyId, policyData |-> policyData]

\* PolicyStorage.storePolicy(string): nextPolicyId++ is checked arithmetic and
\* panics at the largest uint256, which reverts the call.
PolicyStorage_storePolicyData(st, policyData) ==
    IF st.nextPolicyId = UintMax THEN Revert(st, Panic_Overflow)
    ELSE Return(NoReturn,
                [st EXCEPT !.log = Append(@, PolicyStored(st.nextPolicyId, policyData)),
                           !.nextPolicyId = @ + 1])

\* PolicyStorage.storePolicy(bytes32, string), with the same checked increment.
PolicyStorage_storePolicy(st, policyId, policyHash) ==
    IF st.nextPolicyId = UintMax THEN Revert(st, Panic_Overflow)
    ELSE Return(NoReturn,
                [st EXCEPT !.policies = Store(@, policyId, keccak256(policyHash)),
                           !.log = Append(@, PolicyStored(st.nextPolicyId, policyHash)),
                           !.nextPolicyId = @ + 1])

\* PolicyStorage.getPolicy: a mapping reads as zero at a key never written.
PolicyStorage_getPolicy(st, policyId) ==
    IF policyId \in DOMAIN st.policies THEN st.policies[policyId] ELSE ZeroBytes32

\* HealthToken is ERC20 (part_006:4-6) and adds a constructor only: transfer,
\* approve and transferFrom are those of the OpenZeppelin contract it imports,
\* whose source is not among the repository's files.  They are modelled here
\* from the ERC20 interface: a transfer moves value from the caller to the
\* receiver and reverts when the receiver is the zero address or the balance
\* falls short; an allowance is set by its owner and spent by transferFrom,
\* the largest uint256 standing for one that is never used up.  The token's
\* own Transfer and Approval events are not kept in the log.
transfer(st, from, to, value) ==
    IF to = ZeroAddress THEN Revert(st, "ERC20InvalidReceiver")
    ELSE IF st.balances[from] < value THEN Revert(st, "ERC20InsufficientBalance")
    ELSE Return(TRUE, [st EXCEPT !.balances[from] = @ - value,
                                 !.balances[to] = @ + value])

approve(st, owner, spender, value) ==
    IF spender = ZeroAddress THEN Revert(st, "ERC20InvalidSpender")
    ELSE Return(TRUE, [st EXCEPT !.allowances[owner][spender] = value])

transferFrom(st, spender, from, to, value) ==
    IF st.allowances[from][spender] < value THEN Revert(st, "ERC20InsufficientAllowance")
    ELSE LET spent == IF st.allowances[from][spender] = UintMax THEN st
                      ELSE [st EXCEPT !.allowances[from][spender] = @ - value]
             moved == transfer(spent, from, to, value)
         IN  IF moved.err # NoError THEN Revert(st, moved.err) ELSE moved

HealthInsurance_ClaimSubmitted(policyId, claimant, amount, approved) ==
    [type |-> "ClaimSubmitted", policyId |-> policyId, claimant |-> claimant,
     amount |-> amount, approved |-> approved]

\* HealthInsurance.submitClaim without the try around the transfer.
HealthInsurance_submitClaim_NoTry(st, sender, policyId, amount) ==
    LET ph == PolicyStorage_getPolicy(st, policyId)
        approved == ph # ZeroBytes32
        paid == transfer(st, HealthInsuranceAddress, sender, RewardAmount)
    IN  IF approved /\ paid.err # NoError THEN Revert(st, paid.err)
        ELSE LET after == IF approved THEN paid.st ELSE st
             IN  Return(approved,
                        [after EXCEPT !.log = Append(@,
                            HealthInsurance_ClaimSubmitted(policyId, sender, amount,
                                                           approved))])

\* HealthInsurance.submitClaim: try rewardToken.transfer(...) {} catch {} takes
\* the transfer's effect when it returns and none when it reverts.
HealthInsurance_submitClaim(st, sender, policyId, amount) ==
    LET ph == PolicyStorage_getPolicy(st, policyId)
        approved == ph # ZeroBytes32
        paid == transfer(st, HealthInsuranceAddress, sender, RewardAmount)
        after == IF approved /\ paid.err = NoError THEN paid.st ELSE st
    IN  Return(approved,
               [after EXCEPT !.log = Append(@,
                   HealthInsurance_ClaimSubmitted(policyId, sender, amount, approved))])

\* Deploy.run: the three contracts, the whole supply with the deployer.
Deploy ==
    [policies |-> << >>, nextPolicyId |-> 0,
     balances |-> [a \in TokenHolders |-> IF a = insurer THEN InitialSupply ELSE 0],
     allowances |-> [a \in TokenHolders |-> [b \in TokenHolders |-> 0]],
     log |-> << >>]

----------------------------------------------------------------------------
(* The state machine *)

\* The storage of a freshly deployed contract.
EmptyLedger ==
    [policies |-> << >>, claims |-> << >>,
     userPolicies |-> [a \in Addresses |-> << >>],
     userClaims |-> [a \in Addresses |-> << >>],
     totalPolicies |-> 0, totalClaims |-> 0, events |-> << >>]

\* The storage variables hold st.
LedgerIs(st) ==
    /\ policies = st.policies
    /\ claims = st.claims
    /\ userPolicies = st.userPolicies
    /\ userClaims = st.userClaims
    /\ totalPolicies = st.totalPolicies
    /\ totalClaims = st.totalClaims
    /\ events = st.events

\* The readings of the clock from t on.
Later(t) == t .. MaxClock

\* PolicyClaim is deployed, the simulator is constructed (its Map holds the
\* sample record, stamped with two readings of the clock, the first of which
\* is the origin of time) and the demo has not started.  clock is the last
\* reading the simulator made.
Init ==
    /\ LedgerIs(EmptyLedger)
    /\ now = 0
    /\ \E t2 \in Later(0) :
          /\ ledger = initializeLedger(<< >>, 0, t2).st
          /\ clock = t2
    /\ demo = [pc |-> "checkHealth", claimId |-> ""]
    /\ legacy = Deploy

\* A transaction ends: its outcome becomes the storage (a reverted one leaves
\* the storage it found).
Commit(r) ==
    /\ policies' = r.st.policies
    /\ claims' = r.st.claims
    /\ userPolicies' = r.st.userPolicies
    /\ userClaims' = r.st.userClaims
    /\ totalPolicies' = r.st.totalPolicies
    /\ totalClaims' = r.st.totalClaims
    /\ events' = r.st.events
    /\ UNCHANGED <<now, ledger, clock, demo, legacy>>

PolicyIds == DOMAIN policies \cup {UnknownId, ZeroBytes32}
ClaimIds == DOMAIN claims \cup {UnknownId, ZeroBytes32}

\* registerPolicy called with arguments from the given sets.
RegisterPolicyWith(senders, holders, insuredAmounts, premiums, startDates, endDates) ==
    \E sender \in senders, holder \in holders, insuredAmount \in insuredAmounts,
       premium \in premiums, startDate \in startDates, endDate \in endDates,
       policyHash \in PolicyHashes :
        LET r == registerPolicy(Ledger, now, sender, holder, insuredAmount, premium,
                                startDate, endDate, policyHash)
        IN  /\ r.err = NoError => Len(events) < MaxEvents
            /\ Commit(r)

\* The insurer calls with any of the arguments; another sender is refused by
\* onlyInsurer before an argument is read, so it calls with one set of them.
RegisterPolicy ==
    \/ RegisterPolicyWith({insurer}, Holders, InsuredAmounts, Premiums, StartDates,
                          EndDates)
    \/ RegisterPolicyWith(Senders \ {insurer}, {"alice"}, {105}, {MINIMUM_PREMIUM},
                          StartDates, {2})

\* submitClaim called with arguments from the given sets.
SubmitClaimWith(senders, policyIds, claimAmounts) ==
    \E sender \in senders, policyId \in policyIds, claimAmount \in claimAmounts,
       description \in Descriptions :
        LET r == submitClaim(Ledger, now, sender, policyId, claimAmount, description)
        IN  /\ r.err = NoError => Len(events) < MaxEvents
            /\ Commit(r)

SubmitClaim == SubmitClaimWith(Senders, PolicyIds, ClaimAmounts)

ProcessClaim ==
    \E claimId \in ClaimIds :
        LET r == processClaim(Ledger, now, claimId)
        IN  /\ r.err = NoError => Len(events) < MaxEvents
            /\ Commit(r)

DeactivatePolicy ==
    \E sender \in Senders, policyId \in PolicyIds :
        LET r == deactivatePolicy(Ledger, sender, policyId)
        IN  /\ r.err = NoError => Len(events) < MaxEvents
            /\ Commit(r)

\* The next block: block.timestamp never decreases.
Mine ==
    /\ now < MaxTime
    /\ now' = now + 1
    /\ UNCHANGED <<policies, claims, userPolicies, userClaims, totalPolicies,
                   totalClaims, events, ledger, clock, demo, legacy>>

\* A call of a view function.
View ==
    \/ \E id \in PolicyIds : Commit(getPolicy(Ledger, id))
    \/ \E id \in ClaimIds : Commit(getClaim(Ledger, id))
    \/ \E user \in Addresses : Commit(getUserPolicies(Ledger, user))
    \/ \E user \in Addresses : Commit(getUserClaims(Ledger, user))
    \/ \E id \in PolicyIds : Commit(isPolicyValidForClaims(Ledger, now, id))
    \/ Commit(getContractStats(Ledger))

Next ==
    \/ RegisterPolicy
    \/ SubmitClaim
    \/ ProcessClaim
    \/ DeactivatePolicy
    \/ View
    \/ Mine

Spec == Init /\ [][Next]_vars

----------------------------------------------------------------------------
(* The decision rule of processClaim over a range of amounts: the ledger of   *)
(* one policy of the period [1, 2] and one claim on it, with the insured     *)
(* amount and the claimed amount drawn from DecisionInsured and              *)
(* DecisionAmounts.                                                          *)

\* The insurer registers the one policy.
RegisterForDecision ==
    /\ policies = << >>
    /\ RegisterPolicyWith({insurer}, {"alice"}, DecisionInsured, {MINIMUM_PREMIUM},
                          StartDates, {2})

\* Its holder submits the one claim.
SubmitForDecision ==
    /\ claims = << >>
    /\ SubmitClaimWith({"alice"}, DOMAIN policies, DecisionAmounts)

NextDecision ==
    \/ RegisterForDecision
    \/ SubmitForDecision
    \/ ProcessClaim
    \/ DeactivatePolicy
    \/ Mine

SpecDecision == Init /\ [][NextDecision]_vars

----------------------------------------------------------------------------
(* The workflow of the deployment script: the insurer registers the two      *)
(* policies, each starting at the block it is registered in, and each holder *)
(* submits one claim.                                                        *)

RegisterForWorkflow ==
    \E p \in WorkflowPolicies :
        /\ userPolicies[p.holder] = << >>
        /\ RegisterPolicyWith({insurer}, {p.holder}, {p.insuredAmount}, {p.premium},
                              {now}, {now + p.term})

SubmitForWorkflow ==
    \E c \in WorkflowClaims :
        /\ userClaims[c.claimant] = << >>
        /\ SubmitClaimWith({c.claimant}, DOMAIN policies, {c.claimAmount})

NextWorkflow ==
    \/ RegisterForWorkflow
    \/ SubmitForWorkflow
    \/ ProcessClaim
    \/ DeactivatePolicy
    \/ View
    \/ Mine

SpecWorkflow == Init /\ [][NextWorkflow]_vars

----------------------------------------------------------------------------
(* The earlier deployment under its callers: anyone stores policies, holders  *)
(* of HealthToken send, allow and spend tokens (the deployer funding         *)
(* HealthInsurance among them), claimants submit claims.                     *)

\* A transaction on the earlier deployment ends.  It is taken while the log is
\* within MaxEvents and no holder but the deployer has more than MaxRewards
\* payouts.
Mined(r) ==
    /\ Len(r.st.log) <= MaxEvents
    /\ \A a \in TokenHolders \ {insurer} : r.st.balances[a] <= MaxRewards * RewardAmount
    /\ legacy' = r.st
    /\ UNCHANGED <<policies, claims, userPolicies, userClaims, totalPolicies,
                   totalClaims, events, now, fabricVars>>

StorePolicyData ==
    \E policyData \in StoredPolicyData :
        Mined(PolicyStorage_storePolicyData(legacy, policyData))

StorePolicy ==
    \E policyId \in ScriptPolicyIds, policyHash \in StoredPolicyHashes :
        Mined(PolicyStorage_storePolicy(legacy, policyId, policyHash))

\* A holder sends tokens: the deployer funding HealthInsurance, and any other
\* transfer, to the zero address too.
Transfer ==
    \E from \in Senders, to \in TokenHolders \cup {ZeroAddress}, value \in TokenAmounts :
        Mined(transfer(legacy, from, to, value))

\* A holder sets the allowance of a spender.
Approve ==
    \E owner \in TokenOwners, spender \in TokenSpenders, value \in {0} \cup TokenAmounts :
        Mined(approve(legacy, owner, spender, value))

\* A spender moves tokens of a holder who allowed it.
TransferFrom ==
    \E spender \in TokenSpenders, from \in TokenOwners, to \in TokenHolders,
       value \in TokenAmounts :
        Mined(transferFrom(legacy, spender, from, to, value))

HealthInsuranceSubmitClaim ==
    \E sender \in Claimants, policyId \in ScriptPolicyIds, amount \in RewardClaimAmounts :
        Mined(HealthInsurance_submitClaim(legacy, sender, policyId, amount))

NextLegacy ==
    \/ StorePolicyData
    \/ StorePolicy
    \/ Transfer
    \/ Approve
    \/ TransferFrom
    \/ HealthInsuranceSubmitClaim

SpecLegacy == Init /\ [][NextLegacy]_vars

----------------------------------------------------------------------------
(* The simulator under the requests of the bridge and of the test client.    *)

\* A request was handled, t being the last reading of the clock its handler
\* made: the Map is as it left it.
Handled(r, t) ==
    /\ Len(r.st) <= MaxRecords
    /\ ledger' = r.st
    /\ clock' = t
    /\ UNCHANGED <<demo, chainVars>>

\* A method of the bridge reads the clock, then awaits its request: the
\* simulator handles it at a later reading, and may have handled the requests
\* of other callers since the bridge read the clock.  A step is the handling of
\* the request; what the bridge read before is any earlier reading.
SyncPolicyToFabric ==
    \E policyId \in SyncPolicyIds, patientId \in {DemoPatient.patientId},
       t \in Later(clock) :
        \E now1 \in 0 .. t :
            \E now2 \in now1 .. t :
                Handled(syncPolicyToFabric(ledger, now1, now2, t, policyId, patientId), t)

BridgeCreatePatientRecord ==
    \E patientId \in {DemoPatient.patientId}, t1 \in Later(clock) :
        \E dateNow \in 0 .. t1, t2 \in Later(t1) :
            Handled(bridgeCreatePatientRecord(ledger, dateNow, t1, t2,
                        [DemoPatient EXCEPT !.patientId = patientId]), t2)

BridgeCreateClaimRequest ==
    \E random \in RandomSuffixes, t1 \in Later(clock) :
        \E dateNow \in 0 .. t1, t2 \in Later(t1) :
            \E t3 \in Later(t2) :
                Handled(bridgeCreateClaimRequest(ledger, dateNow, t1, t2, t3, random,
                                                 DemoClaim), t2)

\* Ids updateClaimStatus is called with: the stored ones and one never stored.
UpdateIds == Keys(ledger) \cup {UnknownClaimId}

\* The ids the bridge's updateClaimStatus is called with here: those its
\* createClaimRequest gave (the demo updates the claim it created) and one
\* never stored.
BridgeClaimIds == {k \in UpdateIds : SubSeq(k, 1, 6) = "CLAIM_"}

BridgeUpdateClaimStatus ==
    \E claimId \in BridgeClaimIds, status \in {"approved"},
       ethereumTxHash \in {"ETH_TX_APPROVED_12345"}, t \in Later(clock) :
        Handled(bridgeUpdateClaimStatus(ledger, t, claimId, status, ethereumTxHash), t)

\* The test client's own requests to POST /chaincode/invoke: its
\* CreatePatientRecord, its CreateClaimRequest and its UpdateClaimStatus, a
\* function the simulator does not know, and an UpdateClaimStatus without args.
Invoke ==
    \/ \E patientId \in TestPatientIds, t1 \in Later(clock) :
          \E t2 \in Later(t1) :
              Handled(axiosPost(postInvoke(ledger, t1, t2, "CreatePatientRecord",
                                           TestPatientArgs(patientId))), t2)
    \/ \E claimId \in TestClaimIds, t1 \in Later(clock) :
          \E t2 \in Later(t1) :
              Handled(axiosPost(postInvoke(ledger, t1, t2, "CreateClaimRequest",
                                           TestClaimArgs(claimId))), t2)
    \/ \E claimId \in TestClaimIds, t \in Later(clock) :
          Handled(axiosPost(postInvoke(ledger, t, t, "UpdateClaimStatus",
                                       <<claimId, "approved", "ETH_TX_TEST_123">>)), t)
    \/ \E func \in UnknownFunctions \cup {"UpdateClaimStatus"} :
          Handled(axiosPost(postInvoke(ledger, clock, clock, func, << >>)), clock)

\* The ids, hospitals and insurances the queries are asked for.
QueryIds == Keys(ledger) \cup {UnknownClaimId}
HospitalIds == {"HOSP001", "HOSP_DEMO_001", "TEST_HOSPITAL_001"}
InsuranceIds == {"INS001", "INS_DEMO_001", "TEST_INSURANCE_001"}

\* A request to POST /chaincode/query, one with no args among them, or to one
\* of the GET routes (/health, which reads the size of the Map,
\* /patient-records, /claim-requests, /patient-records/hospital/:hospitalId,
\* /claim-requests/insurance/:insuranceId): the Map is read, never written.
Query ==
    \/ \E id \in QueryIds : Handled(queryChaincode(ledger, "GetPatientRecord", <<id>>), clock)
    \/ \E id \in QueryIds : Handled(queryChaincode(ledger, "GetClaimRequest", <<id>>), clock)
    \/ Handled(queryChaincode(ledger, "GetPatientRecord", << >>), clock)
    \/ Handled(queryChaincode(ledger, "GetAllPatientRecords", << >>), clock)
    \/ Handled(queryChaincode(ledger, "GetAllClaimRequests", << >>), clock)
    \/ \E hospitalId \in HospitalIds :
          Handled(queryChaincode(ledger, "QueryRecordsByHospital", <<hospitalId>>), clock)
    \/ \E insuranceId \in InsuranceIds :
          Handled(queryChaincode(ledger, "QueryClaimsByInsurance", <<insuranceId>>), clock)
    \/ Handled(Return(Len(ledger), ledger), clock)
    \/ Handled(getAllPatientRecords(ledger), clock)
    \/ Handled(getAllClaimRequests(ledger), clock)
    \/ \E hospitalId \in HospitalIds :
          Handled(queryRecordsByHospital(ledger, hospitalId), clock)
    \/ \E insuranceId \in InsuranceIds :
          Handled(queryClaimsByInsurance(ledger, insuranceId), clock)

\* Time passes.
Tick ==
    /\ clock < MaxClock
    /\ clock' = clock + 1
    /\ UNCHANGED <<ledger, demo, chainVars>>

NextMirror ==
    \/ SyncPolicyToFabric
    \/ BridgeCreatePatientRecord
    \/ BridgeCreateClaimRequest
    \/ BridgeUpdateClaimStatus
    \/ Invoke
    \/ Query
    \/ Tick

SpecMirror == Init /\ [][NextMirror]_vars

----------------------------------------------------------------------------
(* The integration demo beside the workflow on PolicyClaim: the two scripts  *)
(* of the repository that drive the bridge and the contract.  The demo's     *)
(* main awaits its bridge calls one after the other and exits at the first   *)
(* that throws.                                                              *)

\* The demo moves on with the outcome of its bridge call, t being the last
\* reading of the clock the simulator made for it.  The claim id it keeps for
\* updateClaimStatus is that of the result of createClaimRequest.
DemoAwait(r, next, t) ==
    /\ ledger' = r.st
    /\ clock' = t
    /\ demo' = IF r.err # NoError THEN [demo EXCEPT !.pc = "exit"]
               ELSE IF next = "updateClaimStatus"
               THEN [pc |-> next, claimId |-> r.ret.claimId]
               ELSE [demo EXCEPT !.pc = next]
    /\ UNCHANGED chainVars

\* An awaited request of the bridge that gets no response, the simulator not
\* being reached: axios throws, the bridge rethrows, the Map is as it was.
NoResponse(store) == Throw(store, "Network Error")

\* main awaits each call of the bridge before it makes the next: the readings
\* of a call come after those of the call before it.  Whatever an await
\* throws ends the run in the catch: a 500 of the simulator, or a request that
\* gets no response, which can happen at every step.
Demo ==
    \/ /\ demo.pc = "checkHealth"
       /\ DemoAwait(Return(Len(ledger), ledger), "createPatientRecord", clock)
    \/ /\ demo.pc = "createPatientRecord"
       /\ \E dateNow \in Later(clock) :
             \E t1 \in Later(dateNow) :
                 \E t2 \in Later(t1) :
                     DemoAwait(bridgeCreatePatientRecord(ledger, dateNow, t1, t2,
                                                         DemoPatient),
                               "syncPolicyToFabric", t2)
    \/ /\ demo.pc = "syncPolicyToFabric"
       /\ \E now1 \in Later(clock) :
             \E now2 \in Later(now1) :
                 \E t \in Later(now2) :
                     DemoAwait(syncPolicyToFabric(ledger, now1, now2, t,
                                                  "POLICY_DEMO_001", "PAT_DEMO_001"),
                               "createClaimRequest", t)
    \/ /\ demo.pc = "createClaimRequest"
       /\ \E random \in RandomSuffixes, dateNow \in Later(clock) :
             \E t1 \in Later(dateNow) :
                 \E t2 \in Later(t1) :
                     \E t3 \in Later(t2) :
                         DemoAwait(bridgeCreateClaimRequest(ledger, dateNow, t1, t2, t3,
                                                            random, DemoClaim),
                                   "updateClaimStatus", t2)
    \/ /\ demo.pc = "updateClaimStatus"
       /\ \E t \in Later(clock) :
             DemoAwait(bridgeUpdateClaimStatus(ledger, t, demo.claimId, "approved",
                                               "ETH_TX_APPROVED_12345"),
                       "getAllPatientRecords", t)
    \/ /\ demo.pc = "getAllPatientRecords"
       /\ DemoAwait(getAllPatientRecords(ledger), "getAllClaimRequests", clock)
    \/ /\ demo.pc = "getAllClaimRequests"
       /\ DemoAwait(getAllClaimRequests(ledger), "getRecordsByHospital", clock)
    \/ /\ demo.pc = "getRecordsByHospital"
       /\ DemoAwait(queryRecordsByHospital(ledger, "HOSP_DEMO_001"),
                    "getClaimsByInsurance", clock)
    \/ /\ demo.pc = "getClaimsByInsurance"
       /\ DemoAwait(queryClaimsByInsurance(ledger, "INS_DEMO_001"), "done", clock)
    \/ /\ demo.pc \notin {"done", "exit"}
       /\ DemoAwait(NoResponse(ledger), demo.pc, clock)

NextDemo ==
    \/ Demo
    \/ Tick
    \/ RegisterForWorkflow
    \/ SubmitForWorkflow
    \/ ProcessClaim

\* Both scripts run on, step after step, and time passes.
SpecDemo ==
    /\ Init
    /\ [][NextDemo]_vars
    /\ WF_vars(Demo)
    /\ WF_vars(Tick)
    /\ WF_vars(RegisterForWorkflow)
    /\ WF_vars(SubmitForWorkflow)
    /\ WF_vars(ProcessClaim)

----------------------------------------------------------------------------
(* Properties of the ledger, checked under Spec.  A property of a function    *)
(* quantifies over the calls that can be made in the current state: the call  *)
(* is evaluated on the reachable storage and its outcome examined.            *)

\* The calls of registerPolicy: a set of argument records.
RegisterCalls ==
    [sender : Senders, holder : Holders, insuredAmount : InsuredAmounts,
     premium : Premiums, startDate : StartDates, endDate : EndDates,
     policyHash : PolicyHashes]

RegisterOutcome(c) ==
    registerPolicy(Ledger, now, c.sender, c.holder, c.insuredAmount, c.premium,
                   c.startDate, c.endDate, c.policyHash)

\* The calls of submitClaim in the current state.
SubmitCalls ==
    [sender : Senders, policyId : PolicyIds, claimAmount : ClaimAmounts,
     description : Descriptions]

SubmitOutcome(c) ==
    submitClaim(Ledger, now, c.sender, c.policyId, c.claimAmount, c.description)

\* Event i of the log is of the given type.
IsEvent(i, type) == i \in DOMAIN events /\ events[i].type = type

\* C1, first half: processClaim on a claim that is no longer Pending reverts
\* with "Claim already processed" and leaves the storage, so the claim's
\* status and rejectionReason, as it was.
C1_SecondProcessFails ==
    \A id \in DOMAIN claims :
        claims[id].status # "Pending" =>
            /\ processClaim(Ledger, now, id).err = "Claim already processed"
            /\ processClaim(Ledger, now, id).st = Ledger

\* C1, second half: a step changes a stored claim only while it is Pending,
\* and then only to Approved or to Rejected; no claim is removed.
C1_StatusStep ==
    \A id \in DOMAIN claims :
        /\ id \in DOMAIN claims'
        /\ claims'[id] # claims[id] =>
              /\ claims[id].status = "Pending"
              /\ claims'[id].status \in {"Approved", "Rejected"}

\* C1: a claim's status changes at most once, from Pending to Approved or from
\* Pending to Rejected, and processClaim on a decided claim fails with "Claim
\* already processed" without changing its status or rejectionReason.
C1_StatusChangesOnce == [](C1_SecondProcessFails) /\ [][C1_StatusStep]_vars

\* A claim was approved and its policy has since stopped being valid: a second
\* processClaim, were it to decide again, would reject.
C1_Witness ==
    \E id \in DOMAIN claims :
        /\ claims[id].status = "Approved"
        /\ ~isPolicyValid(policies[claims[id].policyId], now)
        /\ processClaim(Ledger, now, id).err = "Claim already processed"

\* C5: every registerPolicy that succeeds returns an id under which no policy is
\* stored, the ids of the PolicyRegistered events are pairwise different, and
\* as many records are stored as registrations succeeded: no record was
\* overwritten.
C5_PolicyIdsUnique ==
    /\ \A c \in RegisterCalls :
          LET r == RegisterOutcome(c)
          IN  r.err = NoError => r.ret \notin DOMAIN policies
    /\ \A i, j \in DOMAIN events :
          (i # j /\ IsEvent(i, "PolicyRegistered") /\ IsEvent(j, "PolicyRegistered"))
              => events[i].policyId # events[j].policyId
    /\ Cardinality(DOMAIN policies) = totalPolicies

\* Two registrations with the same holder, amounts and dates succeeded at the
\* same block timestamp (the sixth field of the id's preimage).
C5_Witness ==
    \E i, j \in DOMAIN events :
        /\ i < j
        /\ IsEvent(i, "PolicyRegistered") /\ IsEvent(j, "PolicyRegistered")
        /\ [events[i] EXCEPT !.policyId = ZeroBytes32]
              = [events[j] EXCEPT !.policyId = ZeroBytes32]
        /\ events[i].policyId[6] = events[j].policyId[6]

\* C6: registerPolicy from a sender other than the insurer reverts with "Only
\* insurer can perform this action", whatever the other arguments, and leaves
\* policies, userPolicies, totalPolicies and the event log unchanged.
C6_RegisterUnauthorized ==
    \A c \in RegisterCalls :
        LET r == RegisterOutcome(c)
        IN  c.sender # insurer =>
              /\ r.err = "Only insurer can perform this action"
              /\ r.st.policies = policies
              /\ r.st.userPolicies = userPolicies
              /\ r.st.totalPolicies = totalPolicies
              /\ r.st.events = events

\* Policies are stored, and a call that the insurer could make with success is
\* refused to another sender.
C6_Witness ==
    /\ totalPolicies > 0
    /\ \E c \in RegisterCalls :
          /\ c.sender # insurer
          /\ RegisterOutcome([c EXCEPT !.sender = insurer]).err = NoError
          /\ RegisterOutcome(c).err = "Only insurer can perform this action"

\* C7: registerPolicy from the insurer reverts, storing no policy and leaving
\* totalPolicies unchanged, when the holder is the null address, insuredAmount
\* is 0, premium is below MINIMUM_PREMIUM, endDate <= startDate or
\* endDate <= now; and every stored policy has insuredAmount > 0,
\* premium >= MINIMUM_PREMIUM and endDate > startDate.
C7_RegisterRejectsInvalid ==
    /\ \A c \in RegisterCalls :
          LET r == RegisterOutcome(c)
          IN  (/\ c.sender = insurer
               /\ \/ c.holder = ZeroAddress
                  \/ c.insuredAmount = 0
                  \/ c.premium < MINIMUM_PREMIUM
                  \/ c.endDate <= c.startDate
                  \/ c.endDate <= now)
              => /\ r.err # NoError
                 /\ r.st.policies = policies
                 /\ r.st.totalPolicies = totalPolicies
    /\ \A id \in DOMAIN policies :
          /\ policies[id].insuredAmount > 0
          /\ policies[id].premium >= MINIMUM_PREMIUM
          /\ policies[id].endDate > policies[id].startDate

\* A policy is stored, and a registration whose dates are in order is refused
\* only because its endDate is not after now.
C7_Witness ==
    /\ totalPolicies > 0
    /\ \E c \in RegisterCalls :
          /\ c.sender = insurer /\ c.endDate > c.startDate
          /\ RegisterOutcome(c).err = "End date must be in the future"

\* C8: a registerPolicy that succeeds stores exactly one new policy, with the
\* given fields and isActive true, appends its id to userPolicies[holder] and
\* to no other list, increments totalPolicies by one and changes no stored
\* policy and no claim.
C8_RegisterStoresOne ==
    \A c \in RegisterCalls :
        LET r == RegisterOutcome(c)
        IN  r.err = NoError =>
              /\ r.ret \notin DOMAIN policies
              /\ DOMAIN r.st.policies = DOMAIN policies \cup {r.ret}
              /\ r.st.policies[r.ret] =
                    [policyId |-> r.ret, policyHolder |-> c.holder,
                     insuredAmount |-> c.insuredAmount, premium |-> c.premium,
                     startDate |-> c.startDate, endDate |-> c.endDate,
                     isActive |-> TRUE, policyHash |-> c.policyHash]
              /\ \A id \in DOMAIN policies : r.st.policies[id] = policies[id]
              /\ r.st.claims = claims
              /\ r.st.userClaims = userClaims
              /\ r.st.userPolicies =
                    [userPolicies EXCEPT ![c.holder] = Append(@, r.ret)]
              /\ r.st.totalPolicies = totalPolicies + 1

\* A registration succeeded on a ledger that already held a policy and a claim.
C8_Witness ==
    \E i, j, k \in DOMAIN events :
        /\ i < j /\ j < k
        /\ IsEvent(i, "PolicyRegistered")
        /\ IsEvent(j, "ClaimSubmitted")
        /\ IsEvent(k, "PolicyRegistered")
        /\ Len(userPolicies[events[k].policyHolder]) > 0

\* C9: submitClaim succeeds exactly when the policy exists and is active, the
\* sender is its holder, the amount is positive and startDate <= now <= endDate
\* (both ends included); it then creates one claim, Pending and with an empty
\* rejectionReason.  Otherwise it reverts (with "Policy has not started yet"
\* when only now < startDate stands in the way, with "Policy has expired" when
\* only now > endDate does), creates no claim and leaves totalClaims and
\* userClaims unchanged.
C9_SubmitClaimGuards ==
    \A c \in SubmitCalls :
        LET r == SubmitOutcome(c)
            exists == c.policyId \in DOMAIN policies
            policy == policies[c.policyId]
            eligible == /\ exists
                        /\ policy.isActive
                        /\ c.sender = policy.policyHolder
                        /\ c.claimAmount > 0
            inPeriod == policy.startDate <= now /\ now <= policy.endDate
        IN  /\ (r.err = NoError) <=> (eligible /\ inPeriod)
            /\ r.err = NoError =>
                  /\ r.ret \notin DOMAIN claims
                  /\ DOMAIN r.st.claims = DOMAIN claims \cup {r.ret}
                  /\ r.st.claims[r.ret].status = "Pending"
                  /\ r.st.claims[r.ret].rejectionReason = ""
            /\ r.err # NoError =>
                  /\ r.st.claims = claims
                  /\ r.st.totalClaims = totalClaims
                  /\ r.st.userClaims = userClaims
            /\ (eligible /\ now < policy.startDate) => r.err = "Policy has not started yet"
            /\ (eligible /\ now > policy.endDate) => r.err = "Policy has expired"

\* A claim was submitted at the very endDate of its policy, and now an active
\* policy is past its endDate.
C9_Witness ==
    /\ \E id \in DOMAIN claims :
          claims[id].submissionDate = policies[claims[id].policyId].endDate
    /\ \E c \in SubmitCalls : SubmitOutcome(c).err = "Policy has expired"

\* C10: every stored claim references a stored policy, and its claimant is that
\* policy's holder.
C10_ClaimReferencesPolicy ==
    \A id \in DOMAIN claims :
        /\ claims[id].policyId \in DOMAIN policies
        /\ policies[claims[id].policyId].policyId = claims[id].policyId
        /\ claims[id].claimant = policies[claims[id].policyId].policyHolder

\* A claim is stored while policies of two different holders exist.
C10_Witness ==
    /\ claims # << >>
    /\ \E p, q \in DOMAIN policies : policies[p].policyHolder # policies[q].policyHolder

----------------------------------------------------------------------------
(* Properties of processClaim's decision, checked under SpecDecision. *)

\* The conditions of an approval, from the fields of the claim and of its
\* policy at the time of the call.
PolicyInForce(policy) ==
    policy.isActive /\ policy.startDate <= now /\ now <= policy.endDate

WithinInsured(claim, policy) == claim.claimAmount <= policy.insuredAmount

WithinRatio(claim, policy) ==
    (claim.claimAmount * 100) \div policy.insuredAmount <= 80

PendingClaims == {id \in DOMAIN claims : claims[id].status = "Pending"}

\* C2: processClaim on a Pending claim returns true and sets status Approved
\* exactly when the policy is active and in its period, the amount is at most
\* the insured amount and floor(amount * 100 / insuredAmount) <= 80; otherwise
\* it returns false and sets status Rejected.
C2_DecisionRule ==
    \A id \in PendingClaims :
        LET r == processClaim(Ledger, now, id)
            claim == claims[id]
            policy == policies[claim.policyId]
        IN  IF PolicyInForce(policy) /\ WithinInsured(claim, policy)
                                     /\ WithinRatio(claim, policy)
            THEN /\ r.err = NoError
                 /\ r.ret = TRUE
                 /\ r.st.claims[id].status = "Approved"
            ELSE /\ r.err = NoError
                 /\ r.ret = FALSE
                 /\ r.st.claims[id].status = "Rejected"

\* C3: a processClaim that rejects sets rejectionReason to the reason of the
\* first failing condition, in the order policy validity, amount <= insured
\* amount, ratio <= 80.
C3_FirstFailingReason ==
    \A id \in PendingClaims :
        LET r == processClaim(Ledger, now, id)
            claim == claims[id]
            policy == policies[claim.policyId]
        IN  (r.err = NoError /\ r.ret = FALSE) =>
              /\ r.st.claims[id].status = "Rejected"
              /\ r.st.claims[id].rejectionReason =
                    IF ~PolicyInForce(policy)
                    THEN "Policy is not valid or has expired"
                    ELSE IF ~WithinInsured(claim, policy)
                    THEN "Claim amount exceeds insured amount"
                    ELSE "Claim amount exceeds maximum allowed ratio"

\* A claim for more than the insured amount, so failing both amount checks, was
\* rejected for its policy: the policy was not in force when it was processed.
C3_Witness ==
    \E id \in DOMAIN claims :
        /\ claims[id].status = "Rejected"
        /\ claims[id].rejectionReason = "Policy is not valid or has expired"
        /\ claims[id].claimAmount > policies[claims[id].policyId].insuredAmount
        /\ events[Len(events)].type = "ClaimProcessed"

\* C4: while its policy is in force, a Pending claim for exactly 80% of the
\* insured amount is approved, and a claim for one unit more than that is
\* rejected with "Claim amount exceeds maximum allowed ratio".
C4_EightyPercentBoundary ==
    \A id \in PendingClaims :
        LET r == processClaim(Ledger, now, id)
            claim == claims[id]
            policy == policies[claim.policyId]
        IN  PolicyInForce(policy) =>
              /\ claim.claimAmount * 100 = policy.insuredAmount * 80 =>
                    /\ r.err = NoError
                    /\ r.ret = TRUE
                    /\ r.st.claims[id].status = "Approved"
              /\ (claim.claimAmount - 1) * 100 = policy.insuredAmount * 80 =>
                    /\ r.err = NoError
                    /\ r.ret = FALSE
                    /\ r.st.claims[id].status = "Rejected"
                    /\ r.st.claims[id].rejectionReason =
                          "Claim amount exceeds maximum allowed ratio"

----------------------------------------------------------------------------
(* The life of a policy record, checked under Spec. *)

\* C11, one step: a stored policy stays stored, keeps every field other than
\* isActive, and does not go from inactive to active.
C11_PolicyStep ==
    \A id \in DOMAIN policies :
        /\ id \in DOMAIN policies'
        /\ [policies'[id] EXCEPT !.isActive = FALSE]
              = [policies[id] EXCEPT !.isActive = FALSE]
        /\ ~policies[id].isActive => ~policies'[id].isActive

\* C11: once a policy's isActive is false it never becomes true again, the
\* record is never removed, and no operation changes its policyId, holder,
\* insuredAmount, premium, startDate, endDate or policyHash after registration.
C11_PolicyImmutable == [][C11_PolicyStep]_vars

\* A policy was deactivated and a later transaction succeeded.
C11_Witness ==
    \E id \in DOMAIN policies, i, j \in DOMAIN events :
        /\ ~policies[id].isActive
        /\ i < j
        /\ IsEvent(i, "PolicyDeactivated") /\ events[i].policyId = id
        /\ events[j].type \in {"PolicyRegistered", "ClaimProcessed"}

\* The calls of deactivatePolicy in the current state.
DeactivateCalls == [sender : Senders, policyId : PolicyIds]

DeactivateOutcome(c) == deactivatePolicy(Ledger, c.sender, c.policyId)

\* C12: deactivatePolicy succeeds exactly when the sender is the insurer and
\* the policy exists and is active; it then sets that policy's isActive to
\* false, changes nothing else of the storage and emits one PolicyDeactivated;
\* any other call reverts and changes nothing, and the log holds at most one
\* PolicyDeactivated per policy.
C12_DeactivateGuards ==
    /\ \A c \in DeactivateCalls :
          LET r == DeactivateOutcome(c)
              ok == /\ c.sender = insurer
                    /\ c.policyId \in DOMAIN policies
                    /\ policies[c.policyId].isActive
          IN  /\ (r.err = NoError) <=> ok
              /\ r.err = NoError =>
                    r.st = [Ledger EXCEPT
                              !.policies[c.policyId].isActive = FALSE,
                              !.events = Append(@,
                                  [type |-> "PolicyDeactivated",
                                   policyId |-> c.policyId,
                                   policyHolder |-> policies[c.policyId].policyHolder])]
              /\ r.err # NoError => r.st = Ledger
    /\ \A i, j \in DOMAIN events :
          (i # j /\ IsEvent(i, "PolicyDeactivated") /\ IsEvent(j, "PolicyDeactivated"))
              => events[i].policyId # events[j].policyId

\* One policy was deactivated while another is still active: the insurer's
\* second deactivation of the first is refused.
C12_Witness ==
    \E i \in DOMAIN events, id \in DOMAIN policies :
        /\ IsEvent(i, "PolicyDeactivated")
        /\ policies[id].isActive
        /\ deactivatePolicy(Ledger, insurer, events[i].policyId).err
              = "Policy is not active"

----------------------------------------------------------------------------
(* The rejection reason of a stored claim, checked under SpecDecision. *)

RejectionReasons ==
    {"Policy is not valid or has expired", "Claim amount exceeds insured amount",
     "Claim amount exceeds maximum allowed ratio"}

\* C13: a stored claim's rejectionReason is non-empty exactly when its status
\* is Rejected: empty while Pending and after Approved, one of the three
\* reasons after a rejection.
C13_ReasonIffRejected ==
    \A id \in DOMAIN claims :
        /\ (claims[id].rejectionReason # "") <=> (claims[id].status = "Rejected")
        /\ claims[id].status = "Rejected" =>
              claims[id].rejectionReason \in RejectionReasons

\* A claim within the insured amount of a policy in force was rejected for its
\* ratio alone.
C13_Witness ==
    \E id \in DOMAIN claims :
        /\ claims[id].status = "Rejected"
        /\ claims[id].rejectionReason = "Claim amount exceeds maximum allowed ratio"
        /\ claims[id].claimAmount <= policies[claims[id].policyId].insuredAmount

----------------------------------------------------------------------------
(* The two scenarios of the workflow, checked under SpecWorkflow. *)

\* A policy registered as the workflow's first: 10 ether insured for a premium
\* of 1 ether, from the block of its registration (the sixth field of its id's
\* preimage) for 365 days.
IsPolicy1(policy) ==
    /\ policy.insuredAmount = 10 * ether
    /\ policy.premium = 1 * ether
    /\ policy.startDate = policy.policyId[6]
    /\ policy.endDate = policy.startDate + days365

\* A policy insuring 5 ether.
IsPolicy2(policy) == policy.insuredAmount = 5 * ether

\* C14: on a policy of 10 insured, premium 1, startDate = now of its
\* registration and endDate 365 days later, the holder's submitClaim of 3
\* yields a Pending claim, and processClaim on that claim, while the policy is
\* active and in its period, returns true and leaves it Approved with an empty
\* rejectionReason.
C14_ScenarioApproved ==
    /\ \A id \in DOMAIN policies :
          (IsPolicy1(policies[id]) /\ PolicyInForce(policies[id])) =>
              \A description \in Descriptions :
                  LET s == submitClaim(Ledger, now, policies[id].policyHolder, id,
                                       3 * ether, description)
                      p == processClaim(s.st, now, s.ret)
                  IN  /\ s.err = NoError
                      /\ s.st.claims[s.ret].status = "Pending"
                      /\ p.err = NoError
                      /\ p.ret = TRUE
                      /\ p.st.claims[s.ret].status = "Approved"
                      /\ p.st.claims[s.ret].rejectionReason = ""
    /\ \A id \in PendingClaims :
          LET claim == claims[id]
              policy == policies[claim.policyId]
              r == processClaim(Ledger, now, id)
          IN  (/\ IsPolicy1(policy)
               /\ PolicyInForce(policy)
               /\ claim.claimAmount = 3 * ether)
              => /\ r.err = NoError
                 /\ r.ret = TRUE
                 /\ r.st.claims[id].status = "Approved"
                 /\ r.st.claims[id].rejectionReason = ""

\* The first policy's claim of 3 ether was submitted and has just been
\* approved, in the block the policy started in.
C14_Witness ==
    \E id \in DOMAIN claims :
        /\ IsPolicy1(policies[claims[id].policyId])
        /\ claims[id].claimAmount = 3 * ether
        /\ claims[id].status = "Approved"
        /\ claims[id].rejectionReason = ""
        /\ now = policies[claims[id].policyId].startDate
        /\ events[Len(events)] = ClaimProcessed(claims[id])

\* The second scenario, with the text the rejection is expected to carry: on an
\* active policy of 5 insured and in its period the holder's submitClaim of 6
\* is accepted as Pending, and processClaim on that claim, the policy still in
\* force, returns false and leaves it Rejected with that text as its
\* rejectionReason.
Scenario2(reason) ==
    /\ \A id \in DOMAIN policies :
          (IsPolicy2(policies[id]) /\ PolicyInForce(policies[id])) =>
              \A description \in Descriptions :
                  LET s == submitClaim(Ledger, now, policies[id].policyHolder, id,
                                       6 * ether, description)
                      p == processClaim(s.st, now, s.ret)
                  IN  /\ s.err = NoError
                      /\ s.st.claims[s.ret].status = "Pending"
                      /\ p.err = NoError
                      /\ p.ret = FALSE
                      /\ p.st.claims[s.ret].status = "Rejected"
                      /\ p.st.claims[s.ret].rejectionReason = reason
    /\ \A id \in PendingClaims :
          LET claim == claims[id]
              policy == policies[claim.policyId]
              r == processClaim(Ledger, now, id)
          IN  (/\ IsPolicy2(policy)
               /\ PolicyInForce(policy)
               /\ claim.claimAmount = 6 * ether)
              => /\ r.err = NoError
                 /\ r.ret = FALSE
                 /\ r.st.claims[id].status = "Rejected"
                 /\ r.st.claims[id].rejectionReason = reason

\* C15 as stated: the rejected claim's rejectionReason is exactly "claim amount
\* exceeds insured amount".
C15_ScenarioRejected_AsStated == Scenario2("claim amount exceeds insured amount")

\* C15: a claim of 6 on an active policy of 5 insured is accepted as Pending
\* (submitClaim does not compare the amount with insuredAmount); processClaim
\* then returns false, sets status Rejected and sets rejectionReason to
\* exactly "Claim amount exceeds insured amount".
C15_ScenarioRejected == Scenario2("Claim amount exceeds insured amount")

\* The second policy's claim of 6 ether was submitted and has just been
\* rejected while the policy was in force.
C15_Witness ==
    \E id \in DOMAIN claims :
        /\ IsPolicy2(policies[claims[id].policyId])
        /\ PolicyInForce(policies[claims[id].policyId])
        /\ claims[id].claimAmount = 6 * ether
        /\ claims[id].status = "Rejected"
        /\ claims[id].rejectionReason = "Claim amount exceeds insured amount"
        /\ events[Len(events)] = ClaimProcessed(claims[id])

----------------------------------------------------------------------------
(* The view functions, checked under Spec. *)

\* A PolicyRegistered (ClaimSubmitted) event carries the id: a record was
\* created under it.
PolicyCreated(id) ==
    \E i \in DOMAIN events : IsEvent(i, "PolicyRegistered") /\ events[i].policyId = id
ClaimCreated(id) ==
    \E i \in DOMAIN events : IsEvent(i, "ClaimSubmitted") /\ events[i].claimId = id

\* C16: getPolicy, getClaim, getUserPolicies, getUserClaims and
\* getContractStats leave the storage as it is; getPolicy (getClaim) reverts
\* with "Policy does not exist" ("Claim does not exist") exactly when no record
\* was ever created under the id, and otherwise returns the stored record.
C16_ViewsReadOnly ==
    /\ \A id \in PolicyIds :
          LET r == getPolicy(Ledger, id)
          IN  /\ r.st = Ledger
              /\ IF PolicyCreated(id)
                 THEN r.err = NoError /\ r.ret = policies[id]
                 ELSE r.err = "Policy does not exist"
    /\ \A id \in ClaimIds :
          LET r == getClaim(Ledger, id)
          IN  /\ r.st = Ledger
              /\ IF ClaimCreated(id)
                 THEN r.err = NoError /\ r.ret = claims[id]
                 ELSE r.err = "Claim does not exist"
    /\ \A user \in Addresses :
          /\ getUserPolicies(Ledger, user) = Return(userPolicies[user], Ledger)
          /\ getUserClaims(Ledger, user) = Return(userClaims[user], Ledger)
    /\ getContractStats(Ledger).err = NoError
    /\ getContractStats(Ledger).st = Ledger

\* A deactivated policy and a decided claim are stored: both are still
\* returned, and an id never created is refused.
C16_Witness ==
    \E p \in DOMAIN policies, c \in DOMAIN claims :
        /\ ~policies[p].isActive
        /\ claims[c].status # "Pending"
        /\ getPolicy(Ledger, p).ret = policies[p]
        /\ getClaim(Ledger, c).ret = claims[c]
        /\ getPolicy(Ledger, UnknownId).err = "Policy does not exist"

----------------------------------------------------------------------------
(* The bridge's writes to the simulator, checked under SpecMirror. *)

\* The payload of a record but for updatedAt.
Payload(record) ==
    [f \in DOMAIN record.data \ {"updatedAt"} |-> record.data[f]]

\* Two Maps hold the same ids and, under each, the same type, id and payload;
\* updatedAt may differ.
SameButUpdatedAt(a, b) ==
    /\ Keys(a) = Keys(b)
    /\ \A k \in Keys(a) :
          /\ Get(a, k).type = Get(b, k).type
          /\ Get(a, k).id = Get(b, k).id
          /\ Payload(Get(a, k)) = Payload(Get(b, k))

\* syncPolicyToFabric for the same policy and patient, now and again at later.
SyncPolicyTwice(later) ==
    \A policyId \in SyncPolicyIds, patientId \in PatientIds :
        LET once == syncPolicyToFabric(ledger, clock, clock, clock, policyId, patientId)
            twice == syncPolicyToFabric(once.st, later, later, later, policyId,
                                        patientId)
        IN  SameButUpdatedAt(once.st, twice.st)

\* The bridge's createClaimRequest for the same claim data, now and again at
\* later.
CreateClaimTwice(later) ==
    \A first, second \in RandomSuffixes :
        LET once == bridgeCreateClaimRequest(ledger, clock, clock, clock, clock, first,
                                             DemoClaim)
            twice == bridgeCreateClaimRequest(once.st, later, later, later, later,
                                              second, DemoClaim)
        IN  SameButUpdatedAt(once.st, twice.st)

\* The bridge's updateClaimStatus with the same arguments, now and again at
\* later.
UpdateStatusTwice(later) ==
    \A claimId \in UpdateIds, status \in MirrorStatuses, ethereumTxHash \in TxHashes :
        LET once == bridgeUpdateClaimStatus(ledger, clock, claimId, status,
                                            ethereumTxHash)
            twice == bridgeUpdateClaimStatus(once.st, later, claimId, status,
                                             ethereumTxHash)
        IN  SameButUpdatedAt(once.st, twice.st)

\* C17: the bridge's sync step applied twice for the same event
\* (syncPolicyToFabric for the same policy and patient, createClaimRequest for
\* the same claim data, updateClaimStatus with the same arguments) leaves the
\* simulator's Map with the same ids and the same payloads as applied once;
\* only updatedAt may differ.
C17_SyncIdempotent ==
    \A later \in clock .. MaxClock :
        /\ SyncPolicyTwice(later)
        /\ CreateClaimTwice(later)
        /\ UpdateStatusTwice(later)

\* C20: updateClaimStatus for an id that is not in the Map, and an invoke of an
\* unknown function, throw (the simulator answers 500 and the bridge rethrows)
\* and leave the Map exactly as it was; so does an UpdateClaimStatus without
\* arguments, whose id is undefined.
C20_FailedSyncChangesNothing ==
    /\ \A claimId \in UpdateIds \cup TestClaimIds, status \in MirrorStatuses,
          ethereumTxHash \in TxHashes, t \in Later(clock) :
          claimId \notin Keys(ledger) =>
              LET r == bridgeUpdateClaimStatus(ledger, t, claimId, status,
                                               ethereumTxHash)
                  d == invokeChaincode(ledger, t, t, "UpdateClaimStatus",
                                       <<claimId, status, ethereumTxHash>>)
              IN  /\ r.err = "Request failed with status code 500"
                  /\ r.st = ledger
                  /\ d.err = "Claim " \o TemplateText(claimId) \o " not found"
                  /\ d.st = ledger
    /\ \A func \in UnknownFunctions, t \in Later(clock) :
          LET r == axiosPost(postInvoke(ledger, t, t, func, << >>))
              d == invokeChaincode(ledger, t, t, func, << >>)
          IN  /\ r.err = "Request failed with status code 500"
              /\ r.st = ledger
              /\ d.err = "Unknown function: " \o func
              /\ d.st = ledger
    /\ \A t \in Later(clock) :
          LET r == axiosPost(postInvoke(ledger, t, t, "UpdateClaimStatus", << >>))
              d == invokeChaincode(ledger, t, t, "UpdateClaimStatus", << >>)
          IN  /\ r.err = "Request failed with status code 500"
              /\ r.st = ledger
              /\ d.err = "Claim undefined not found"
              /\ d.st = ledger

\* The Map holds the test client's patient record and a claim request that
\* was updated, while the id of the test client's claim is not stored: the
\* test client's UpdateClaimStatus is refused.
C20_Witness ==
    \E k \in Keys(ledger) :
        /\ Get(ledger, k).type = "ClaimRequest"
        /\ Get(ledger, k).data.status = "approved"
        /\ "TEST_PATIENT_001" \in Keys(ledger)
        /\ "TEST_CLAIM_001" \notin Keys(ledger)
        /\ axiosPost(postInvoke(ledger, clock, clock, "UpdateClaimStatus",
               <<"TEST_CLAIM_001", "approved", "ETH_TX_TEST_123">>)).err
               = "Request failed with status code 500"

----------------------------------------------------------------------------
(* The simulator's Map against the storage of PolicyClaim, checked under     *)
(* SpecDemo.                                                                 *)

\* vm.toString(bytes32): the id as the text a client would send.
HexString(id) == ToString(id)

\* The status a decided claim shows in the simulator.
MirrorStatusOf(status) == IF status = "Approved" THEN "approved" ELSE "rejected"

\* C18: every PolicyVerification in the Map is of a policy registered on
\* PolicyClaim, and every ClaimRequest with status approved or rejected is of
\* a claim PolicyClaim has processed to that status.
C18_MirrorAfterLedger ==
    \A k \in Keys(ledger) :
        /\ Get(ledger, k).type = "PolicyVerification" =>
              \E id \in DOMAIN policies : HexString(id) = Get(ledger, k).data.policyId
        /\ (Get(ledger, k).type = "ClaimRequest"
                /\ Get(ledger, k).data.status \in MirrorStatuses) =>
              \E id \in DOMAIN claims :
                  /\ claims[id].status # "Pending"
                  /\ MirrorStatusOf(claims[id].status) = Get(ledger, k).data.status
                  /\ HexString(claims[id].policyId) = Get(ledger, k).data.policyId

PolicyMirrored(id) ==
    \E k \in Keys(ledger) :
        /\ Get(ledger, k).type = "PolicyVerification"
        /\ Get(ledger, k).data.policyId = HexString(id)

ClaimMirrored(id) ==
    \E k \in Keys(ledger) :
        /\ Get(ledger, k).type = "ClaimRequest"
        /\ Get(ledger, k).data.policyId = HexString(claims[id].policyId)
        /\ Get(ledger, k).data.status = MirrorStatusOf(claims[id].status)

DecidedClaims == {id \in DOMAIN claims : claims[id].status # "Pending"}

\* C19: every policy registered on PolicyClaim is eventually in the Map as a
\* PolicyVerification, and every processed claim's status eventually reaches
\* the Map.
C19_EventuallyMirrored ==
    /\ (policies # << >>) ~> (\A id \in DOMAIN policies : PolicyMirrored(id))
    /\ (DecidedClaims # {}) ~> (\A id \in DecidedClaims : ClaimMirrored(id))

----------------------------------------------------------------------------
(* The simulator's Map as a store of records, checked under SpecMirror. *)

\* C21: a createPatientRecord or createClaimRequest for an id already in the
\* Map keeps the createdAt the record got at its first insertion: no step
\* changes the createdAt of a record that stays in the Map.
C21_CreatedAtStep ==
    \A k \in Keys(ledger) \cap Keys(ledger') :
        "createdAt" \in DOMAIN Get(ledger, k).data =>
            /\ "createdAt" \in DOMAIN Get(ledger', k).data
            /\ Get(ledger', k).data.createdAt = Get(ledger, k).data.createdAt

C21_CreatedAtKept == [][C21_CreatedAtStep]_vars

\* C22: every record in the Map, of every type, carries a status, a createdAt
\* and an updatedAt, and its updatedAt is not before its createdAt.
C22_RecordsStamped ==
    \A k \in Keys(ledger) :
        /\ {"status", "createdAt", "updatedAt"} \subseteq DOMAIN Get(ledger, k).data
        /\ Get(ledger, k).data.updatedAt >= Get(ledger, k).data.createdAt

\* C23: getPatientRecord and getClaimRequest throw "... not found" when the Map
\* has nothing under the id and when what it has there is of the other type;
\* otherwise they give back the stored record; either way the Map is as it was.
\* A query sent without an id finds nothing under undefined.
C23_GetById ==
    \A id \in QueryIds \cup TestClaimIds \cup PatientIds :
        LET p == getPatientRecord(ledger, id)
            c == getClaimRequest(ledger, id)
            stored(type) == id \in Keys(ledger) /\ Get(ledger, id).type = type
        IN  /\ p.st = ledger
            /\ c.st = ledger
            /\ queryChaincode(ledger, "GetPatientRecord", <<id>>) = p
            /\ queryChaincode(ledger, "GetClaimRequest", <<id>>) = c
            /\ IF stored("PatientRecord")
               THEN p.err = NoError /\ p.ret = Get(ledger, id)
               ELSE p.err = "Patient record " \o id \o " not found"
            /\ IF stored("ClaimRequest")
               THEN c.err = NoError /\ c.ret = Get(ledger, id)
               ELSE c.err = "Claim request " \o id \o " not found"
            /\ queryChaincode(ledger, "GetPatientRecord", << >>)
                   = Throw(ledger, "Patient record undefined not found")
            /\ queryChaincode(ledger, "GetClaimRequest", << >>)
                   = Throw(ledger, "Claim request undefined not found")

\* The id of the sample patient record now holds a claim request, beside the
\* patient record the test client created and read back: the first is not
\* found as a patient record, the second is and is not found as a claim
\* request, and an id never stored is not found either.
C23_Witness ==
    /\ "PAT001" \in Keys(ledger)
    /\ Get(ledger, "PAT001").type = "ClaimRequest"
    /\ getPatientRecord(ledger, "PAT001").err # NoError
    /\ getClaimRequest(ledger, "PAT001").ret = Get(ledger, "PAT001")
    /\ "TEST_PATIENT_001" \in Keys(ledger)
    /\ queryChaincode(ledger, "GetPatientRecord", <<"TEST_PATIENT_001">>).ret
           = Get(ledger, "TEST_PATIENT_001")
    /\ getClaimRequest(ledger, "TEST_PATIENT_001").err # NoError
    /\ getClaimRequest(ledger, UnknownClaimId).err # NoError

\* The fields updateClaimStatus writes.
StatusFields == {"status", "ethereumTxHash", "updatedAt"}

\* C24: updateClaimStatus on a claim request in the Map sets its status to the
\* one asked for and changes nothing but status, ethereumTxHash and updatedAt:
\* type, id and every other field of the record (createdAt among them) and
\* every other record stay as they were.
C24_StatusOnlyUpdate ==
    \A claimId \in Keys(ledger), status \in MirrorStatuses, ethereumTxHash \in TxHashes :
        Get(ledger, claimId).type = "ClaimRequest" =>
            LET r == updateClaimStatus(ledger, clock, claimId, status, ethereumTxHash)
                before == Get(ledger, claimId)
                after == Get(r.st, claimId)
            IN  /\ r.err = NoError
                /\ r.ret = after
                /\ after.data.status = status
                /\ after.type = before.type
                /\ after.id = before.id
                /\ DOMAIN after.data = DOMAIN before.data \cup StatusFields
                /\ \A f \in DOMAIN before.data \ StatusFields :
                      after.data[f] = before.data[f]
                /\ after.data.ethereumTxHash = ethereumTxHash
                /\ Len(r.st) = Len(ledger)
                /\ \A i \in DOMAIN ledger :
                      /\ r.st[i].key = ledger[i].key
                      /\ ledger[i].key # claimId => r.st[i] = ledger[i]
                /\ bridgeUpdateClaimStatus(ledger, clock, claimId, status,
                                           ethereumTxHash).st = r.st
                /\ invokeChaincode(ledger, clock, clock, "UpdateClaimStatus",
                                   <<claimId, status, ethereumTxHash>>) = r

\* The run of the test client: after the sample record the Map got the
\* client's patient record and its claim request, and the claim was approved
\* with the client's hash at a later reading of the clock: it shows the new
\* status beside its first createdAt and its other fields.
C24_Witness ==
    /\ Keys(ledger) = {"PAT001", "TEST_PATIENT_001", "TEST_CLAIM_001"}
    /\ Get(ledger, "TEST_PATIENT_001").type = "PatientRecord"
    /\ Get(ledger, "TEST_CLAIM_001").type = "ClaimRequest"
    /\ Get(ledger, "TEST_CLAIM_001").data.status = "approved"
    /\ Get(ledger, "TEST_CLAIM_001").data.ethereumTxHash = "ETH_TX_TEST_123"
    /\ Get(ledger, "TEST_CLAIM_001").data.createdAt
           < Get(ledger, "TEST_CLAIM_001").data.updatedAt
    /\ Get(ledger, "TEST_CLAIM_001").data.amount = 200
    /\ Get(ledger, "TEST_CLAIM_001").data.description = "Test claim description"

\* The records of a list with the given id.
WithId(records, id) == {i \in 1 .. Len(records) : records[i].id = id}

\* What a caller sends to VerifyPolicyWithEthereum for a policy and a patient.
VerificationData(policyId, patientId, isValid, t) ==
    [policyId |-> policyId, patientId |-> patientId, isValid |-> isValid,
     coverageAmount |-> 10000, expiryDate |-> t + days365,
     ethereumTxHash |-> "ETH_TX_" \o ToString(t)]

\* C25: a policy verification is stored under "VERIFICATION_" + policyId + "_"
\* + patientId whatever the other fields and the time of the call are; a
\* second verifyPolicyWithEthereum for the same policy and patient writes
\* under the same id, so that the Map holds one record there and is no larger
\* than after the first.
C25_VerificationKey ==
    \A policyId \in SyncPolicyIds, patientId \in PatientIds, isValid \in BOOLEAN,
       later \in clock .. MaxClock :
        LET id == "VERIFICATION_" \o policyId \o "_" \o patientId
            once == verifyPolicyWithEthereum(ledger, clock,
                        VerificationData(policyId, patientId, TRUE, clock))
            twice == verifyPolicyWithEthereum(once.st, later,
                        VerificationData(policyId, patientId, isValid, later))
        IN  /\ once.ret.id = id
            /\ twice.ret.id = id
            /\ Keys(once.st) = Keys(ledger) \cup {id}
            /\ Keys(twice.st) = Keys(once.st)
            /\ Len(once.st) = Cardinality(Keys(once.st))
            /\ Len(twice.st) = Len(once.st)
            /\ Cardinality(WithId(Values(twice.st), id)) = 1
            /\ Get(twice.st, id) = twice.ret
            /\ \A k \in Keys(ledger) \ {id} : Get(twice.st, k) = Get(ledger, k)
            /\ \A now1 \in 0 .. later :
                  syncPolicyToFabric(once.st, now1, later, later, policyId,
                                     patientId).ret.id = id

\* The verification of the demo's policy is in the Map since an earlier
\* reading of the clock: the next one for it is a repeated write.
C25_Witness ==
    LET id == VerificationIdOf("POLICY_DEMO_001", "PAT_DEMO_001")
    IN  /\ id \in Keys(ledger)
        /\ Get(ledger, id).type = "PolicyVerification"
        /\ Get(ledger, id).data.verifiedAt < clock

\* The Map after the write is the Map before it with the record under the id:
\* in the place of the one it held there, or at the end when it held none;
\* every other entry is as it was and where it was.
Written(after, before, id, record) ==
    /\ Keys(after) = Keys(before) \cup {id}
    /\ Len(after) = Cardinality(Keys(after))
    /\ Get(after, id) = record
    /\ Cardinality(WithId(Values(after), id)) = 1
    /\ \A i \in DOMAIN before :
          /\ after[i].key = before[i].key
          /\ before[i].key # id => after[i] = before[i]

\* C26: a createClaimRequest or createPatientRecord under an id puts its record
\* there in place of whatever the Map held under that id, of whatever type,
\* and touches no other id: the Map holds one record per id, each under its
\* own id, the one written last.
C26_LastWriterWins ==
    /\ Len(ledger) = Cardinality(Keys(ledger))
    /\ \A i \in DOMAIN ledger : ledger[i].value.id = ledger[i].key
    /\ \A id \in Keys(ledger) \cup TestClaimIds \cup PatientIds \cup TestPatientIds,
          t1 \in Later(clock) :
          LET c == createClaimRequest(ledger, clock, t1,
                       [claimId |-> id] @@ [DemoClaim EXCEPT !.amount = 200])
              p == createPatientRecord(c.st, t1, t1, [DemoPatient EXCEPT !.patientId = id])
              ic == invokeChaincode(ledger, clock, t1, "CreateClaimRequest",
                                    TestClaimArgs(id))
              ip == invokeChaincode(ic.st, t1, t1, "CreatePatientRecord",
                                    TestPatientArgs(id))
          IN  /\ c.ret.type = "ClaimRequest"
              /\ Written(c.st, ledger, id, c.ret)
              /\ p.ret.type = "PatientRecord"
              /\ Written(p.st, c.st, id, p.ret)
              /\ ic.ret.type = "ClaimRequest"
              /\ Written(ic.st, ledger, id, ic.ret)
              /\ ip.ret.type = "PatientRecord"
              /\ Written(ip.st, ic.st, id, ip.ret)

\* After the sample record the Map got the test client's patient record and
\* then, under the id of the sample record, the test client's claim request:
\* it is there in the place of the sample, before the record written second.
C26_Witness ==
    /\ Len(ledger) = 2
    /\ ledger[1].key = "PAT001"
    /\ ledger[1].value.type = "ClaimRequest"
    /\ ledger[1].value.data.patientId = "TEST_PATIENT_001"
    /\ ledger[2].key = "TEST_PATIENT_001"
    /\ ledger[2].value.type = "PatientRecord"
    /\ ledger[1].value.data.createdAt > ledger[2].value.data.createdAt
    /\ Cardinality(WithId(Values(ledger), "PAT001")) = 1

\* The records of a list, and those of the Map.
RangeOf(records) == {records[i] : i \in 1 .. Len(records)}
Records == {Get(ledger, k) : k \in Keys(ledger)}

\* The place of a record in the Map.
PlaceOf(record) == CHOOSE i \in DOMAIN ledger : ledger[i].value = record

\* The list holds exactly the given records, each once, in the order the Map
\* holds them.
ListsExactly(r, records) ==
    /\ r.err = NoError
    /\ r.st = ledger
    /\ RangeOf(r.ret) = records
    /\ Len(r.ret) = Cardinality(records)
    /\ \A i, j \in DOMAIN r.ret : i < j => PlaceOf(r.ret[i]) < PlaceOf(r.ret[j])

\* C27: queryRecordsByHospital and queryClaimsByInsurance give exactly the
\* records of the Map that are of the type asked for and whose field has the
\* value given, and the two list-all queries exactly the records of their
\* type: each once, none of another type, none left out, in the order of the
\* Map; the Map is as it was.  The routes of the simulator and the query
\* functions of POST /chaincode/query give the same lists.
C27_FilterExact ==
    /\ \A hospitalId \in HospitalIds :
          ListsExactly(queryRecordsByHospital(ledger, hospitalId),
              {x \in Records : x.type = "PatientRecord"
                                  /\ x.data.hospitalId = hospitalId})
    /\ \A insuranceId \in InsuranceIds :
          ListsExactly(queryClaimsByInsurance(ledger, insuranceId),
              {x \in Records : x.type = "ClaimRequest"
                                  /\ x.data.insuranceId = insuranceId})
    /\ ListsExactly(getAllPatientRecords(ledger),
                    {x \in Records : x.type = "PatientRecord"})
    /\ ListsExactly(getAllClaimRequests(ledger),
                    {x \in Records : x.type = "ClaimRequest"})
    /\ \A hospitalId \in HospitalIds :
          queryChaincode(ledger, "QueryRecordsByHospital", <<hospitalId>>)
              = queryRecordsByHospital(ledger, hospitalId)
    /\ \A insuranceId \in InsuranceIds :
          queryChaincode(ledger, "QueryClaimsByInsurance", <<insuranceId>>)
              = queryClaimsByInsurance(ledger, insuranceId)
    /\ queryChaincode(ledger, "GetAllPatientRecords", << >>) = getAllPatientRecords(ledger)
    /\ queryChaincode(ledger, "GetAllClaimRequests", << >>) = getAllClaimRequests(ledger)
    /\ queryChaincode(ledger, "QueryRecordsByHospital", << >>).ret = << >>

\* The run of the test client, up to its two lists: after the sample record
\* the Map got the client's patient record and its claim request.  The list
\* of patient records has the sample and the client's, in that order, the
\* list of claim requests the client's claim, and the query for the client's
\* hospital gives its patient record and not its claim.
C27_Witness ==
    /\ Len(ledger) = 3
    /\ ledger[1].key = "PAT001"
    /\ ledger[2].key = "TEST_PATIENT_001"
    /\ ledger[3].key = "TEST_CLAIM_001"
    /\ getAllPatientRecords(ledger).ret = <<ledger[1].value, ledger[2].value>>
    /\ getAllClaimRequests(ledger).ret = <<ledger[3].value>>
    /\ queryRecordsByHospital(ledger, "TEST_HOSPITAL_001").ret = <<ledger[2].value>>
    /\ queryRecordsByHospital(ledger, "HOSP001").ret = <<ledger[1].value>>
    /\ queryClaimsByInsurance(ledger, "TEST_INSURANCE_001").ret = <<ledger[3].value>>

\* The record carries a reference to a transaction of the chain.
HasProvenance(record) == "ethereumTxHash" \in DOMAIN record.data

\* C29: whatever the bridge writes into the Map (a policy verification, a
\* patient record, a claim request, a claim's new status) is stored with the
\* hash of the Ethereum transaction it comes from.
C29_ProvenanceStored ==
    /\ \A policyId \in SyncPolicyIds, patientId \in PatientIds :
          LET r == syncPolicyToFabric(ledger, clock, clock, clock, policyId, patientId)
          IN  r.err = NoError => HasProvenance(Get(r.st, r.ret.id))
    /\ \A claimId \in Keys(ledger), status \in MirrorStatuses, hash \in TxHashes :
          LET r == bridgeUpdateClaimStatus(ledger, clock, claimId, status, hash)
          IN  r.err = NoError => HasProvenance(Get(r.st, claimId))
    /\ \A patientId \in PatientIds :
          LET r == bridgeCreatePatientRecord(ledger, clock, clock, clock,
                       [DemoPatient EXCEPT !.patientId = patientId])
          IN  r.err = NoError => HasProvenance(Get(r.st, patientId))
    /\ \A random \in RandomSuffixes :
          LET r == bridgeCreateClaimRequest(ledger, clock, clock, clock, clock, random,
                                            DemoClaim)
          IN  r.err = NoError => HasProvenance(Get(r.st, r.ret.claimId))

----------------------------------------------------------------------------
(* The event log of PolicyClaim, checked under Spec. *)

\* The call left the log as it was but for one more event, of the given type.
EmitsOne(r, type) ==
    /\ Len(r.st.events) = Len(events) + 1
    /\ SubSeq(r.st.events, 1, Len(events)) = events
    /\ r.st.events[Len(r.st.events)].type = type

\* The event a call added.
Emitted(r) == r.st.events[Len(r.st.events)]

\* C28: a call of registerPolicy, submitClaim, processClaim or deactivatePolicy
\* that reverts leaves the log as it was, and one that succeeds adds exactly
\* one event, of its own type, with the fields of the operation: for
\* PolicyRegistered the id, the holder, the insured amount, the premium, the
\* two dates and the policy hash; for ClaimProcessed the stored status and
\* rejection reason.
C28_EventsCarryFields ==
    /\ \A c \in RegisterCalls :
          LET r == RegisterOutcome(c)
          IN  IF r.err # NoError THEN r.st.events = events
              ELSE /\ EmitsOne(r, "PolicyRegistered")
                   /\ Emitted(r).policyId = r.ret
                   /\ Emitted(r).policyHolder = c.holder
                   /\ Emitted(r).insuredAmount = c.insuredAmount
                   /\ Emitted(r).premium = c.premium
                   /\ Emitted(r).startDate = c.startDate
                   /\ Emitted(r).endDate = c.endDate
                   /\ "policyHash" \in DOMAIN Emitted(r)
                   /\ Emitted(r).policyHash = c.policyHash
    /\ \A c \in SubmitCalls :
          LET r == SubmitOutcome(c)
          IN  IF r.err # NoError THEN r.st.events = events
              ELSE /\ EmitsOne(r, "ClaimSubmitted")
                   /\ Emitted(r).claimId = r.ret
                   /\ Emitted(r).policyId = c.policyId
                   /\ Emitted(r).claimant = c.sender
                   /\ Emitted(r).claimAmount = c.claimAmount
                   /\ Emitted(r).claimDescription = c.description
    /\ \A id \in ClaimIds :
          LET r == processClaim(Ledger, now, id)
          IN  IF r.err # NoError THEN r.st.events = events
              ELSE /\ EmitsOne(r, "ClaimProcessed")
                   /\ Emitted(r).claimId = id
                   /\ Emitted(r).policyId = claims[id].policyId
                   /\ Emitted(r).status = r.st.claims[id].status
                   /\ Emitted(r).reason = r.st.claims[id].rejectionReason
    /\ \A c \in DeactivateCalls :
          LET r == DeactivateOutcome(c)
          IN  IF r.err # NoError THEN r.st.events = events
              ELSE /\ EmitsOne(r, "PolicyDeactivated")
                   /\ Emitted(r).policyId = c.policyId
                   /\ Emitted(r).policyHolder = policies[c.policyId].policyHolder

----------------------------------------------------------------------------
(* HealthInsurance's reward payout, checked under SpecLegacy. *)

\* C30: HealthInsurance.submitClaim never reverts on account of the reward:
\* for a policy id stored in PolicyStorage it returns true and emits
\* ClaimSubmitted with approved = true, and the claimant has the reward
\* exactly when the transfer went through; for an id not stored it returns
\* false, emits ClaimSubmitted with approved = false and moves no token.
C30_RewardIsolated ==
    \A sender \in Claimants, policyId \in StoredPolicyIds \cup {UnknownId},
       amount \in RewardClaimAmounts :
        LET r == HealthInsurance_submitClaim(legacy, sender, policyId, amount)
            stored == policyId \in DOMAIN legacy.policies
            funded == legacy.balances[HealthInsuranceAddress] >= RewardAmount
        IN  /\ r.err = NoError
            /\ r.ret = stored
            /\ r.st.log = Append(legacy.log,
                   [type |-> "ClaimSubmitted", policyId |-> policyId,
                    claimant |-> sender, amount |-> amount, approved |-> stored])
            /\ r.st.policies = legacy.policies
            /\ r.st.nextPolicyId = legacy.nextPolicyId
            /\ r.st.allowances = legacy.allowances
            /\ IF stored /\ funded
               THEN r.st.balances =
                        [legacy.balances EXCEPT
                            ![HealthInsuranceAddress] = @ - RewardAmount,
                            ![sender] = @ + RewardAmount]
               ELSE r.st.balances = legacy.balances

\* A claim was approved although HealthInsurance had no token to pay it with
\* (the claimant holds none), another was approved and paid, and a policy id
\* is not stored.
C30_Witness ==
    /\ \E i, j \in DOMAIN legacy.log :
          /\ legacy.log[i].type = "ClaimSubmitted"
          /\ legacy.log[i].approved
          /\ legacy.balances[legacy.log[i].claimant] = 0
          /\ legacy.log[j].type = "ClaimSubmitted"
          /\ legacy.log[j].approved
          /\ legacy.balances[legacy.log[j].claimant] = RewardAmount
    /\ \E policyId \in StoredPolicyIds :
          HealthInsurance_submitClaim(legacy, "alice", policyId, 85).ret = FALSE

----------------------------------------------------------------------------
(* The ids of js/interact.js against those of PolicyClaim, checked under     *)
(* SpecWorkflow.                                                             *)

\* C31: the policy id and the claim id the client computes from the arguments
\* it registered or submitted with and the counter before the call are the
\* ids PolicyClaim stored the records under, so that the client's submitClaim
\* on its policy id goes through; taken in the client's favour, with each of
\* its clock readings equal to the block's timestamp.
C31_OfflineIdsMatch ==
    /\ \A id \in DOMAIN policies :
          LET p == policies[id]
              mine == interact_policyId(p.policyHolder, p.insuredAmount, p.premium,
                                        p.startDate, p.startDate, p.startDate,
                                        p.endDate - p.startDate, id[7])
          IN  /\ mine = id
              /\ submitClaim(Ledger, now, p.policyHolder, mine, 3 * ether,
                             "surgery").err # "Policy does not exist"
    /\ \A id \in DOMAIN claims :
          LET c == claims[id]
          IN  interact_claimId(c.policyId, c.claimant, c.claimAmount,
                               c.claimDescription, c.submissionDate, id[6]) = id

----------------------------------------------------------------------------
(* getContractStats, checked under Spec. *)

\* C32: getContractStats returns totalPolicies, totalClaims and the number of
\* stored policies whose isActive is true.
C32_StatsCountActive ==
    getContractStats(Ledger).ret =
        <<totalPolicies, totalClaims,
          Cardinality({id \in DOMAIN policies : policies[id].isActive})>>

----------------------------------------------------------------------------
(* Writing a record and reading it back, checked under SpecMirror. *)


\* C33: after an invoke of CreatePatientRecord (of CreateClaimRequest) with id
\* X, the query GetPatientRecord(X) (GetClaimRequest(X)) succeeds and gives
\* the record of id X with the fields that were sent, the amount as a number,
\* and the status pending (submitted).
C33_RoundTrip ==
    \A id \in PatientIds \cup TestPatientIds \cup TestClaimIds \cup Keys(ledger),
       t1 \in Later(clock) :
        LET pw == invokeChaincode(ledger, clock, t1, "CreatePatientRecord",
                                  TestPatientArgs(id))
            pr == queryChaincode(pw.st, "GetPatientRecord", <<id>>)
            cw == invokeChaincode(ledger, clock, t1, "CreateClaimRequest",
                                  TestClaimArgs(id))
            cr == queryChaincode(cw.st, "GetClaimRequest", <<id>>)
        IN  /\ pw.err = NoError
            /\ pr.err = NoError
            /\ pr.ret = pw.ret
            /\ pr.ret.type = "PatientRecord"
            /\ pr.ret.id = id
            /\ pr.ret.data.patientId = id
            /\ pr.ret.data.hospitalId = "TEST_HOSPITAL_001"
            /\ pr.ret.data.insuranceId = "TEST_INSURANCE_001"
            /\ pr.ret.data.recordHash = "TEST_HASH_001"
            /\ pr.ret.data.diagnosis = "Test Diagnosis"
            /\ pr.ret.data.treatment = "Test Treatment"
            /\ pr.ret.data.cost = 250
            /\ pr.ret.data.status = "pending"
            /\ cw.err = NoError
            /\ cr.err = NoError
            /\ cr.ret = cw.ret
            /\ cr.ret.type = "ClaimRequest"
            /\ cr.ret.id = id
            /\ cr.ret.data.claimId = id
            /\ cr.ret.data.patientId = "TEST_PATIENT_001"
            /\ cr.ret.data.hospitalId = "TEST_HOSPITAL_001"
            /\ cr.ret.data.insuranceId = "TEST_INSURANCE_001"
            /\ cr.ret.data.description = "Test claim description"
            /\ cr.ret.data.policyId = "TEST_POLICY_001"
            /\ cr.ret.data.amount = 200
            /\ cr.ret.data.status = "submitted"

\* The run of the test client, up to its query: the Map holds the client's
\* patient record and its claim request as they were created, and the query
\* GetPatientRecord gives the patient record back, with the fields that were
\* sent.
C33_Witness ==
    /\ "TEST_PATIENT_001" \in Keys(ledger)
    /\ "TEST_CLAIM_001" \in Keys(ledger)
    /\ LET r == queryChaincode(ledger, "GetPatientRecord", <<"TEST_PATIENT_001">>)
       IN  /\ r.err = NoError
           /\ r.ret = Get(ledger, "TEST_PATIENT_001")
           /\ r.ret.data.diagnosis = "Test Diagnosis"
           /\ r.ret.data.cost = 250
           /\ r.ret.data.status = "pending"
    /\ Get(ledger, "TEST_CLAIM_001").data.status = "submitted"
    /\ Get(ledger, "TEST_CLAIM_001").data.amount = 200
    /\ Get(ledger, "TEST_CLAIM_001").data.description = "Test claim description"
    /\ queryChaincode(ledger, "GetClaimRequest", <<"TEST_CLAIM_001">>).ret
           = Get(ledger, "TEST_CLAIM_001")

----------------------------------------------------------------------------
(* processClaim on every claim that can be submitted, checked under          *)
(* SpecDecision.                                                             *)

\* C34: a Pending claim whose policy has been deactivated, or whose policy's
\* endDate has passed, is Rejected by processClaim with the reason "Policy is
\* not valid or has expired", whatever its amount.
C34_ValidityAtProcessing ==
    \A id \in PendingClaims :
        LET policy == policies[claims[id].policyId]
            r == processClaim(Ledger, now, id)
        IN  (~policy.isActive \/ now > policy.endDate) =>
                /\ r.err = NoError
                /\ r.ret = FALSE
                /\ r.st.claims[id].status = "Rejected"
                /\ r.st.claims[id].rejectionReason = "Policy is not valid or has expired"

\* C35: processClaim on a Pending claim completes without error and leaves the
\* claim Approved or Rejected, whatever amount submitClaim accepted.
C35_PendingCanBeProcessed ==
    \A id \in PendingClaims :
        LET r == processClaim(Ledger, now, id)
        IN  /\ r.err = NoError
            /\ r.st.claims[id].status \in {"Approved", "Rejected"}

----------------------------------------------------------------------------
(* The counters, the lists and the event log of PolicyClaim, checked under   *)
(* Spec.                                                                     *)

\* The lengths of the lists of the given users, summed.
RECURSIVE SumLen(_, _)
SumLen(lists, users) ==
    IF users = {} THEN 0
    ELSE LET a == CHOOSE u \in users : TRUE
         IN  Len(lists[a]) + SumLen(lists, users \ {a})

\* The ids in a list, and whether the list holds each once.
IdsOf(list) == {list[i] : i \in DOMAIN list}
NoRepeat(list) == \A i, j \in DOMAIN list : list[i] = list[j] => i = j

\* C36: totalPolicies is the number of stored policies and the summed length
\* of the userPolicies lists, totalClaims the number of stored claims and the
\* summed length of the userClaims lists; no list holds an id twice, and the
\* list of a user holds exactly the ids of the policies that user holds (of
\* the claims that user made), so that every id is in one list only.
C36_CountersAndLists ==
    /\ totalPolicies = Cardinality(DOMAIN policies)
    /\ totalPolicies = SumLen(userPolicies, Addresses)
    /\ totalClaims = Cardinality(DOMAIN claims)
    /\ totalClaims = SumLen(userClaims, Addresses)
    /\ \A a \in Addresses :
          /\ NoRepeat(userPolicies[a])
          /\ NoRepeat(userClaims[a])
          /\ IdsOf(userPolicies[a]) =
                {id \in DOMAIN policies : policies[id].policyHolder = a}
          /\ IdsOf(userClaims[a]) =
                {id \in DOMAIN claims : claims[id].claimant = a}

\* Two holders have a policy each, one of them two, and a claim was made.
C36_Witness ==
    /\ totalPolicies = 3
    /\ totalClaims = 1
    /\ \E a, b \in Holders :
          /\ Len(userPolicies[a]) = 2
          /\ Len(userPolicies[b]) = 1
          /\ Len(userClaims[a]) + Len(userClaims[b]) = 1

\* C37: in the event log, the ClaimProcessed of a claim comes after its
\* ClaimSubmitted and there is at most one of it; the ClaimSubmitted of a
\* claim comes after the PolicyRegistered of its policy; and no ClaimSubmitted
\* on a policy comes after that policy's PolicyDeactivated.
C37_EventOrder ==
    /\ \A j \in DOMAIN events :
          IsEvent(j, "ClaimProcessed") =>
              /\ \E i \in 1 .. j - 1 :
                    /\ IsEvent(i, "ClaimSubmitted")
                    /\ events[i].claimId = events[j].claimId
              /\ \A k \in DOMAIN events :
                    (IsEvent(k, "ClaimProcessed")
                        /\ events[k].claimId = events[j].claimId) => k = j
    /\ \A j \in DOMAIN events :
          IsEvent(j, "ClaimSubmitted") =>
              /\ \E i \in 1 .. j - 1 :
                    /\ IsEvent(i, "PolicyRegistered")
                    /\ events[i].policyId = events[j].policyId
              /\ \A i \in 1 .. j - 1 :
                    ~(IsEvent(i, "PolicyDeactivated")
                        /\ events[i].policyId = events[j].policyId)

\* A policy was registered, claimed on, deactivated, and the claim processed
\* after that: the log has the four events in this order, and the holder's
\* next claim on the policy is refused.
C37_Witness ==
    \E i, j, k, l \in DOMAIN events :
        /\ i < j /\ j < k /\ k < l
        /\ IsEvent(i, "PolicyRegistered")
        /\ IsEvent(j, "ClaimSubmitted")
        /\ IsEvent(k, "PolicyDeactivated")
        /\ IsEvent(l, "ClaimProcessed")
        /\ events[j].policyId = events[i].policyId
        /\ events[k].policyId = events[i].policyId
        /\ events[l].claimId = events[j].claimId
        /\ submitClaim(Ledger, now, events[i].policyHolder, events[i].policyId, 85,
                       "surgery").err = "Policy is not active"

\* The preconditions of submitClaim in the order they are to be reported:
\* whether each fails for the call, and its message.
SubmitFailures(c) ==
    LET policy == PolicyAt(Ledger, c.policyId)
    IN  << <<c.policyId \notin DOMAIN policies, "Policy does not exist">>,
           <<~policy.isActive, "Policy is not active">>,
           <<c.sender # policy.policyHolder, "Only policy holder can submit claims">>,
           <<c.claimAmount = 0, "Claim amount must be greater than 0">>,
           <<now < policy.startDate, "Policy has not started yet">>,
           <<now > policy.endDate, "Policy has expired">> >>

\* The message of the first that fails.
FirstFailure(failures) ==
    IF \E i \in DOMAIN failures : failures[i][1]
    THEN LET first == CHOOSE i \in DOMAIN failures :
                          /\ failures[i][1]
                          /\ \A j \in 1 .. i - 1 : ~failures[j][1]
         IN  failures[first][2]
    ELSE NoError

\* The calls of registerPolicy with a field that breaks a constraint.
BadFields(c) ==
    \/ c.holder = ZeroAddress
    \/ c.insuredAmount = 0
    \/ c.premium < MINIMUM_PREMIUM
    \/ c.endDate <= c.startDate
    \/ c.endDate <= now

\* C39: a submitClaim that fails reports the first failing precondition in the
\* order: policy does not exist, policy not active, sender is not the holder,
\* amount is 0, now < startDate, now > endDate; a registerPolicy from another
\* sender than the insurer reports that even when its fields are invalid too.
C39_FirstFailureReported ==
    /\ \A c \in SubmitCalls : SubmitOutcome(c).err = FirstFailure(SubmitFailures(c))
    /\ \A c \in RegisterCalls :
          (c.sender # insurer /\ BadFields(c)) =>
              RegisterOutcome(c).err = "Only insurer can perform this action"

\* Several preconditions fail at once: on an active policy past its endDate a
\* call of another sender with amount 0, and on a deactivated policy a call of
\* another sender.
C39_Witness ==
    /\ \E c \in SubmitCalls :
          /\ c.policyId \in DOMAIN policies
          /\ policies[c.policyId].isActive
          /\ c.sender # policies[c.policyId].policyHolder
          /\ c.claimAmount = 0
          /\ now > policies[c.policyId].endDate
          /\ SubmitOutcome(c).err = "Only policy holder can submit claims"
    /\ \E c \in SubmitCalls :
          /\ c.policyId \in DOMAIN policies
          /\ ~policies[c.policyId].isActive
          /\ c.sender # policies[c.policyId].policyHolder
          /\ SubmitOutcome(c).err = "Policy is not active"

----------------------------------------------------------------------------
(* updateClaimStatus and the verification ids, checked under SpecMirror. *)

\* C38: updateClaimStatus with an id under which the Map holds a PatientRecord
\* or a PolicyVerification throws "Claim <id> not found", as for an id never
\* stored, and leaves the Map as it was.
C38_UpdatesClaimsOnly ==
    \A id \in Keys(ledger), status \in MirrorStatuses, hash \in TxHashes :
        Get(ledger, id).type # "ClaimRequest" =>
            LET r == updateClaimStatus(ledger, clock, id, status, hash)
            IN  /\ r.err = "Claim " \o id \o " not found"
                /\ r.st = ledger

\* Pairs of a policy id and a patient id, some with the separator inside.
SeparatorPairs ==
    {<<"a_b", "c">>, <<"a", "b_c">>, <<"POLICY_DEMO_001", "PAT_DEMO_001">>,
     <<"POLICY_DEMO", "001_PAT_DEMO_001">>}

\* C40: the verifications of two different pairs (policyId, patientId) are
\* stored under different ids, so that writing the second leaves the record
\* of the first in the Map.
C40_PairsKeptApart ==
    \A p, q \in SeparatorPairs :
        p # q =>
            LET first == verifyPolicyWithEthereum(ledger, clock,
                             VerificationData(p[1], p[2], TRUE, clock))
                second == verifyPolicyWithEthereum(first.st, clock,
                              VerificationData(q[1], q[2], TRUE, clock))
            IN  /\ first.ret.id # second.ret.id
                /\ Get(second.st, first.ret.id) = first.ret

====
